---- MODULE Spec2Model ----
(***************************************************************************)
(* Model of the v3 detection engine (core/detector) and instrumentation    *)
(* engine (core/instrumentor) of the observability stack.                  *)
(*                                                                         *)
(* Conventions                                                             *)
(*  - scores are integers in tenths (0.3 -> 3), category weights in        *)
(*    hundredths (0.30 -> 30), weighted sums and confidence in thousandths *)
(*    (1.0 -> 1000); the arithmetic is exact.                              *)
(*  - a Python dict is a sequence of entries in insertion order.           *)
(*  - a text file is a sequence of lines taken from a fixed vocabulary;    *)
(*    substring and regex tests are tables over that vocabulary.           *)
(***************************************************************************)
EXTENDS Integers, Sequences, FiniteSets, TLC

(***************************************************************************)
(* core/detector/base.py                                                   *)
(***************************************************************************)
Framework ==
    {"FLASK", "DJANGO", "FASTAPI", "EXPRESS", "NESTJS", "SPRING_BOOT", "UNKNOWN"}

\* Enum member .value
FrameworkValue(f) ==
    CASE f = "FLASK"       -> "flask"
      [] f = "DJANGO"      -> "django"
      [] f = "FASTAPI"     -> "fastapi"
      [] f = "EXPRESS"     -> "express"
      [] f = "NESTJS"      -> "nestjs"
      [] f = "SPRING_BOOT" -> "spring_boot"
      [] f = "UNKNOWN"     -> "unknown"

\* str(member), which is what an f-string interpolates for a plain Enum
FrameworkStr(f) ==
    CASE f = "FLASK"       -> "Framework.FLASK"
      [] f = "DJANGO"      -> "Framework.DJANGO"
      [] f = "FASTAPI"     -> "Framework.FASTAPI"
      [] f = "EXPRESS"     -> "Framework.EXPRESS"
      [] f = "NESTJS"      -> "Framework.NESTJS"
      [] f = "SPRING_BOOT" -> "Framework.SPRING_BOOT"
      [] f = "UNKNOWN"     -> "Framework.UNKNOWN"

\* Python None, for the optional version and error message
None == "None"

(***************************************************************************)
(* Python dict with Framework keys (float values) and str keys ending in   *)
(* '_version' (str values).  A str key is kept as its text before the      *)
(* '_version' suffix.                                                      *)
(***************************************************************************)
FwEntry(f, s) == [key |-> f, isver |-> FALSE, score |-> s, ver |-> ""]

VerEntry(base, v) == [key |-> base, isver |-> TRUE, score |-> 0, ver |-> v]

EmptyDict == << >>

DictHas(d, k, isv) == \E i \in 1..Len(d) : d[i].key = k /\ d[i].isver = isv

DictIndex(d, k, isv) == CHOOSE i \in 1..Len(d) : d[i].key = k /\ d[i].isver = isv

\* hints.get(framework, 0)
DictGet(d, f) == IF DictHas(d, f, FALSE) THEN d[DictIndex(d, f, FALSE)].score ELSE 0

\* d[key] = value: an existing key keeps its position, a new key is appended
DictSet(d, e) ==
    IF DictHas(d, e.key, e.isver)
    THEN [d EXCEPT ![DictIndex(d, e.key, e.isver)] = e]
    ELSE Append(d, e)

RECURSIVE DictUpdate(_, _)
\* d.update(other)
DictUpdate(d, other) ==
    IF other = << >> THEN d
    ELSE DictUpdate(DictSet(d, Head(other)), Tail(other))

\* the keys of a dict that are Framework members
FwKeys(d) == {d[i].key : i \in {j \in 1..Len(d) : ~d[j].isver}}

\* dict equality (==) ignores insertion order
DictEq(d1, d2) ==
    {d1[i] : i \in 1..Len(d1)} = {d2[i] : i \in 1..Len(d2)}

(***************************************************************************)
(* Text: which needles a line contains.                                    *)
(***************************************************************************)
Reverse(seq) == [i \in 1..Len(seq) |-> seq[Len(seq) + 1 - i]]

\* the elements of a sequence
Range(seq) == {seq[i] : i \in 1..Len(seq)}

\* case-sensitive substrings of a line, among the strings the code looks for
Subs(line) ==
    CASE line = "Flask==2.3.0"      -> {"Flask"}
      [] line = "flask-cors==4.0.0" -> {"flask"}
      [] line = "Django==4.2.0"     -> {"Django"}
      [] line = "fastapi==0.104.0"  -> {"fastapi"}
      [] line = "requests==2.31.0"  -> {}
      [] line = "flask = \"*\""     -> {"flask"}
      [] line = "Flask = \"*\""     -> {"Flask"}
      [] line = "express: ^4.18.2"  -> {"express"}
      [] line = "@nestjs/core: ^10.0.0"   -> {"@nestjs/core"}
      [] line = "@nestjs/common: ^10.0.0" -> {"@nestjs/common"}
      [] line = "name: express-demo"      -> {"express"}
      [] line = "<<<<<<< HEAD"            -> {}
      [] line = "<groupId>org.springframework.boot</groupId>"
            -> {"org.springframework.boot"}
      [] line = "<artifactId>spring-boot-starter-web</artifactId>"
            -> {"spring-boot-starter", "spring-boot"}
      [] line = "implementation 'org.springframework.boot:spring-boot-starter-web'"
            -> {"org.springframework.boot", "spring-boot-starter", "spring-boot"}
      [] line = "opentelemetry-instrumentation-flask>=0.42b0"   -> {"flask"}
      [] line = "opentelemetry-instrumentation-django>=0.42b0"  -> {"django"}
      [] line = "opentelemetry-instrumentation-fastapi>=0.42b0" -> {"fastapi"}
      [] line = "@opentelemetry/instrumentation-express: ^0.33.0" -> {"express"}
      [] line = "from flask import Flask"  -> {"flask", "Flask"}
      [] line = "app = Flask(__name__)"    -> {"Flask", "Flask(__name__)"}
      [] line = "from fastapi import FastAPI" -> {"fastapi", "FastAPI"}
      [] line = "app = FastAPI()"          -> {"FastAPI", "FastAPI()"}
      [] line = "if __name__ == '__main__':" -> {"if __name__"}
      [] line = "const express = require('express')" -> {"express"}
      [] line = "import otel_init  # ObsStack instrumentation" -> {"otel_init"}
      [] line = "app = otel_init.instrument_flask_app(app)"    -> {"otel_init", "flask"}
      [] line = "import otel_init  # ObsStack"                 -> {"otel_init"}
      [] line = "app = otel_init.instrument_fastapi_app(app)"  -> {"otel_init", "fastapi"}
      [] line = "    import otel_init  # ObsStack"             -> {"otel_init"}
      [] line = "require('./otel.js');"                        -> {"otel.js"}
      [] OTHER -> {}

\* lower-cased needles contained in the lower-cased line
SubsCI(line) ==
    CASE line = "Flask==2.3.0"      -> {"flask"}
      [] line = "flask-cors==4.0.0" -> {"flask"}
      [] line = "Django==4.2.0"     -> {"django"}
      [] line = "fastapi==0.104.0"  -> {"fastapi"}
      [] line = "flask = \"*\""     -> {"flask"}
      [] line = "Flask = \"*\""     -> {"flask"}
      [] line = "express: ^4.18.2"  -> {"express"}
      [] line = "@nestjs/core: ^10.0.0"   -> {"@nestjs/core"}
      [] line = "@nestjs/common: ^10.0.0" -> {}
      [] line = "name: express-demo"      -> {"express"}
      [] line = "<artifactId>spring-boot-starter-web</artifactId>"
            -> {"spring-boot"}
      [] line = "implementation 'org.springframework.boot:spring-boot-starter-web'"
            -> {"spring-boot"}
      [] line = "# ObsStack OpenTelemetry"            -> {"obsstack", "opentelemetry"}
      [] line = "opentelemetry-api>=1.21.0"           -> {"opentelemetry"}
      [] line = "opentelemetry-sdk>=1.21.0"           -> {"opentelemetry"}
      [] line = "opentelemetry-exporter-otlp>=1.21.0" -> {"opentelemetry"}
      [] line = "opentelemetry-instrumentation-flask>=0.42b0"
            -> {"opentelemetry", "flask"}
      [] line = "opentelemetry-instrumentation-django>=0.42b0"
            -> {"opentelemetry", "django"}
      [] line = "opentelemetry-instrumentation-fastapi>=0.42b0"
            -> {"opentelemetry", "fastapi"}
      [] line = "@opentelemetry/sdk-trace-node: ^1.17.0"           -> {"opentelemetry"}
      [] line = "@opentelemetry/resources: ^1.17.0"                -> {"opentelemetry"}
      [] line = "@opentelemetry/semantic-conventions: ^1.17.0"     -> {"opentelemetry"}
      [] line = "@opentelemetry/exporter-trace-otlp-grpc: ^0.43.0" -> {"opentelemetry"}
      [] line = "@opentelemetry/sdk-trace-base: ^1.17.0"           -> {"opentelemetry"}
      [] line = "@opentelemetry/instrumentation: ^0.43.0"          -> {"opentelemetry"}
      [] line = "@opentelemetry/instrumentation-http: ^0.43.0"     -> {"opentelemetry"}
      [] line = "@opentelemetry/instrumentation-express: ^0.33.0"
            -> {"opentelemetry", "express"}
      [] OTHER -> {}

\* needle in content
Contains(content, needle) == \E i \in 1..Len(content) : needle \in Subs(content[i])

\* needle.lower() in content.lower()
ContainsCI(content, needle) == \E i \in 1..Len(content) : needle \in SubsCI(content[i])

\* group(1) of re.search(f'{package}[=><]+([\d.]+)', line, re.IGNORECASE),
\* "" when the line has no match; pkg is the lower-cased package name
LineVersion(line, pkg) ==
    CASE line = "Flask==2.3.0"     /\ pkg = "flask"   -> "2.3.0"
      [] line = "Django==4.2.0"    /\ pkg = "django"  -> "4.2.0"
      [] line = "fastapi==0.104.0" /\ pkg = "fastapi" -> "0.104.0"
      [] line = "opentelemetry-instrumentation-flask>=0.42b0"   /\ pkg = "flask"   -> "0.42"
      [] line = "opentelemetry-instrumentation-django>=0.42b0"  /\ pkg = "django"  -> "0.42"
      [] line = "opentelemetry-instrumentation-fastapi>=0.42b0" /\ pkg = "fastapi" -> "0.42"
      [] OTHER -> ""

\* the first match of the regex in the content, "" when there is none
ContentVersion(content, pkg) ==
    IF \E i \in 1..Len(content) : LineVersion(content[i], pkg) # ""
    THEN LET i == CHOOSE j \in 1..Len(content) :
                    /\ LineVersion(content[j], pkg) # ""
                    /\ \A k \in 1..(j - 1) : LineVersion(content[k], pkg) = ""
         IN  LineVersion(content[i], pkg)
    ELSE ""

(***************************************************************************)
(* The container as the docker client shows it: inspect attributes, the    *)
(* process listing, the HTTP behaviour, the files, the installed packages, *)
(* and the exec commands that raise an API error when run.                 *)
(***************************************************************************)
FileNames ==
    {"requirements.txt", "Pipfile", "package.json", "pom.xml", "build.gradle",
     "app.py", "manage.py", "main.py", "app.js", "server.js", "index.js",
     "otel_init.py", "otel.js"}

\* content of a path that is not a file
Absent == << "<no such file>" >>

\* an exec command: program text and file argument
Cmd(prog, arg) == << prog, arg >>

\* exec_run(cmd) raises instead of returning
Raises(c, cmd) == cmd \in c.raises

\* exit code of 'test -f name' and of 'cat name'
FileExit(c, name) == IF c.fs[name] = Absent THEN 1 ELSE 0

(***************************************************************************)
(* The outcome of a scanner body: the hints gathered so far, and whether   *)
(* an exception left the body.                                             *)
(***************************************************************************)
Returned(hints) == [raised |-> FALSE, hints |-> hints]

Raised(hints) == [raised |-> TRUE, hints |-> hints]

Swallow_Reraise(outcome) == outcome

\* try: <body> except Exception: <print or pass>, then return hints; every
\* scanner body sits in this handler
Swallow(outcome) == Returned(outcome.hints)

(***************************************************************************)
(* core/detector/scanners/port_scanner.py                                  *)
(***************************************************************************)
\* PORT_HINTS.get(port), "" when the port is not in the table
PORT_HINTS(port) ==
    CASE port = 5000 -> "FLASK"
      [] port = 8000 -> "DJANGO"
      [] port = 8080 -> "SPRING_BOOT"
      [] port = 3000 -> "EXPRESS"
      [] port = 4000 -> "EXPRESS"
      [] OTHER -> ""

\* int(port_key.split('/')[0])
PortNumber(port_key) ==
    CASE port_key = "5000/tcp" -> 5000
      [] port_key = "8000/tcp" -> 8000
      [] port_key = "8080/tcp" -> 8080
      [] port_key = "3000/tcp" -> 3000
      [] port_key = "4000/tcp" -> 4000
      [] port_key = "9090/tcp" -> 9090

RECURSIVE PortLoop(_, _)
PortLoop(keys, hints) ==
    IF keys = << >> THEN hints
    ELSE LET framework == PORT_HINTS(PortNumber(Head(keys)))
         IN  PortLoop(Tail(keys),
                      IF framework # ""
                      THEN DictSet(hints, FwEntry(framework, DictGet(hints, framework) + 3))
                      ELSE hints)

\* Ports: null makes ports.keys() raise before the first hint
PortScanner_scan(c) ==
    Swallow(IF c.portsNull THEN Raised(EmptyDict)
            ELSE Returned(PortLoop(c.ports, EmptyDict)))

(***************************************************************************)
(* core/detector/scanners/process_scanner.py                               *)
(***************************************************************************)
PROCESS_PATTERNS ==
    << [pat |-> "python.*app\\.py",    fw |-> "FLASK",       wild |-> TRUE],
       [pat |-> "python.*manage\\.py", fw |-> "DJANGO",      wild |-> TRUE],
       [pat |-> "python.*main\\.py",   fw |-> "FASTAPI",     wild |-> TRUE],
       [pat |-> "python",              fw |-> "FLASK",       wild |-> FALSE],
       [pat |-> "gunicorn",            fw |-> "FLASK",       wild |-> FALSE],
       [pat |-> "uvicorn",             fw |-> "FASTAPI",     wild |-> FALSE],
       [pat |-> "node.*app\\.js",      fw |-> "EXPRESS",     wild |-> TRUE],
       [pat |-> "node.*server\\.js",   fw |-> "EXPRESS",     wild |-> TRUE],
       [pat |-> "node",                fw |-> "EXPRESS",     wild |-> FALSE],
       [pat |-> "npm",                 fw |-> "EXPRESS",     wild |-> FALSE],
       [pat |-> "java.*\\.jar",        fw |-> "SPRING_BOOT", wild |-> TRUE],
       [pat |-> "java",                fw |-> "SPRING_BOOT", wild |-> FALSE] >>

\* the patterns re.search finds in one line of 'ps aux' (IGNORECASE; '.' stays
\* within the line)
LineMatches(line) ==
    CASE line = "python app.py"          -> {"python.*app\\.py", "python"}
      [] line = "python manage.py runserver" -> {"python.*manage\\.py", "python"}
      [] line = "python main.py"         -> {"python.*main\\.py", "python"}
      [] line = "python3 -m http.server" -> {"python"}
      [] line = "gunicorn app:app"       -> {"gunicorn"}
      [] line = "uvicorn main:app"       -> {"uvicorn"}
      [] line = "node app.js"            -> {"node.*app\\.js", "node"}
      [] line = "node server.js"         -> {"node.*server\\.js", "node"}
      [] line = "npm start"              -> {"npm"}
      [] line = "java -jar app.jar"      -> {"java.*\\.jar", "java"}
      [] line = "java Main"              -> {"java"}
      [] OTHER -> {}

\* score = 0.8 if '.*' in pattern else 0.6
PatternScore(p) == IF p.wild THEN 8 ELSE 6

Max(a, b) == IF a >= b THEN a ELSE b

Min(a, b) == IF a <= b THEN a ELSE b

ProcessBody_ExitInverted(c) ==
    IF c.psExit = 0 THEN EmptyDict
    ELSE LET hit == {i \in 1..Len(PROCESS_PATTERNS) :
                        \E line \in c.ps : PROCESS_PATTERNS[i].pat \in LineMatches(line)}
         IN  IF hit = {} THEN EmptyDict
             ELSE LET i == CHOOSE j \in hit : \A k \in hit : j <= k
                      p == PROCESS_PATTERNS[i]
                  IN  \* the loop breaks at the first matching pattern
                      DictSet(EmptyDict,
                              FwEntry(p.fw, Max(DictGet(EmptyDict, p.fw), PatternScore(p))))

ProcessBody(c) ==
    IF c.psExit # 0 THEN EmptyDict
    ELSE LET hit == {i \in 1..Len(PROCESS_PATTERNS) :
                        \E line \in c.ps : PROCESS_PATTERNS[i].pat \in LineMatches(line)}
         IN  IF hit = {} THEN EmptyDict
             ELSE LET i == CHOOSE j \in hit : \A k \in hit : j <= k
                      p == PROCESS_PATTERNS[i]
                  IN  \* the loop breaks at the first matching pattern
                      DictSet(EmptyDict,
                              FwEntry(p.fw, Max(DictGet(EmptyDict, p.fw), PatternScore(p))))

ProcessScanner_scan(c) ==
    Swallow(IF Raises(c, Cmd("ps aux", "")) THEN Raised(EmptyDict)
            ELSE Returned(ProcessBody(c)))

(***************************************************************************)
(* core/detector/scanners/http_prober.py                                   *)
(***************************************************************************)
\* HEADER_PATTERNS in iteration order
HEADER_PATTERNS ==
    << [header |-> "Server",       pat |-> "Werkzeug", fw |-> "FLASK"],
       [header |-> "Server",       pat |-> "gunicorn", fw |-> "FLASK"],
       [header |-> "Server",       pat |-> "uvicorn",  fw |-> "FASTAPI"],
       [header |-> "X-Powered-By", pat |-> "Express",  fw |-> "EXPRESS"],
       [header |-> "X-Powered-By", pat |-> "PHP",      fw |-> "UNKNOWN"] >>

ENDPOINT_PATTERNS ==
    << [endpoint |-> "/admin/",    fw |-> "DJANGO"],
       [endpoint |-> "/swagger/",  fw |-> "SPRING_BOOT"],
       [endpoint |-> "/docs",      fw |-> "FASTAPI"],
       [endpoint |-> "/actuator/", fw |-> "SPRING_BOOT"] >>

Endpoints == {ENDPOINT_PATTERNS[i].endpoint : i \in 1..Len(ENDPOINT_PATTERNS)}

\* the header patterns p with p.lower() in header_value.lower()
HeaderMatches(header_value) ==
    CASE header_value = "Werkzeug/2.3.7 Python/3.11.6" -> {"Werkzeug"}
      [] header_value = "gunicorn"    -> {"gunicorn"}
      [] header_value = "uvicorn"     -> {"uvicorn"}
      [] header_value = "Express"     -> {"Express"}
      [] header_value = "PHP/8.2.12"  -> {"PHP"}
      [] OTHER -> {}

\* headers.get(header_name, '')
HeaderGet(headers, header_name) ==
    IF header_name = "Server" THEN headers.server ELSE headers.powered

RECURSIVE analyze_headers_loop(_, _, _)
analyze_headers_loop(headers, i, hints) ==
    IF i > Len(HEADER_PATTERNS) THEN hints
    ELSE LET p == HEADER_PATTERNS[i]
         IN  analyze_headers_loop(headers, i + 1,
                IF p.pat \in HeaderMatches(HeaderGet(headers, p.header))
                THEN DictSet(hints, FwEntry(p.fw, 5))
                ELSE hints)

analyze_headers(headers) == analyze_headers_loop(headers, 1, EmptyDict)

RECURSIVE probe_endpoints_loop(_, _, _)
\* a request that raises and a 404 both leave the hints alone
probe_endpoints_loop(c, i, hints) ==
    IF i > Len(ENDPOINT_PATTERNS) THEN hints
    ELSE LET p == ENDPOINT_PATTERNS[i]
         IN  probe_endpoints_loop(c, i + 1,
                IF p.endpoint \in c.http.live
                THEN DictSet(hints, FwEntry(p.fw, DictGet(hints, p.fw) + 4))
                ELSE hints)

probe_endpoints(c) == probe_endpoints_loop(c, 1, EmptyDict)

RECURSIVE DictAdd(_, _)
\* for framework, score in other.items(): hints[framework] = hints.get(framework, 0) + score
DictAdd(hints, other) ==
    IF other = << >> THEN hints
    ELSE LET e == Head(other)
         IN  DictAdd(DictSet(hints, FwEntry(e.key, DictGet(hints, e.key) + e.score)),
                     Tail(other))

\* the fallback list of _get_exposed_ports
DefaultPorts == << 80, 8000, 8080, 5000, 3000, 4000 >>

get_exposed_ports(c) ==
    LET ports == IF c.portsNull THEN DefaultPorts
                 ELSE [i \in 1..Len(c.ports) |-> PortNumber(c.ports[i])]
    IN  SubSeq(ports, 1, Min(5, Len(ports)))

RECURSIVE probe_loop(_, _, _)
probe_loop(c, ports, hints) ==
    IF ports = << >> THEN hints
    ELSE probe_loop(c, Tail(ports),
            IF ~c.http.up THEN hints    \* RequestException: continue
            ELSE DictAdd(DictAdd(hints, analyze_headers(c.http)), probe_endpoints(c)))

\* _get_container_ip and _get_exposed_ports catch their own exceptions
HTTPProber_probe(c) ==
    Swallow(Returned(IF ~c.ip THEN EmptyDict
                     ELSE probe_loop(c, get_exposed_ports(c), EmptyDict)))

(***************************************************************************)
(* core/detector/analyzers/env_analyzer.py                                 *)
(***************************************************************************)
ENV_HINTS(key) ==
    CASE key = "FLASK_APP"              -> "FLASK"
      [] key = "DJANGO_SETTINGS_MODULE" -> "DJANGO"
      [] key = "FASTAPI_ENV"            -> "FASTAPI"
      [] key = "NODE_ENV"               -> "EXPRESS"
      [] key = "SPRING_PROFILES_ACTIVE" -> "SPRING_BOOT"
      [] OTHER -> ""

\* env_var.split('=')[0]
EnvKey(env_var) ==
    CASE env_var = "FLASK_APP=app.py"                     -> "FLASK_APP"
      [] env_var = "DJANGO_SETTINGS_MODULE=site.settings" -> "DJANGO_SETTINGS_MODULE"
      [] env_var = "FASTAPI_ENV=production"               -> "FASTAPI_ENV"
      [] env_var = "NODE_ENV=production"                  -> "NODE_ENV"
      [] env_var = "SPRING_PROFILES_ACTIVE=prod"          -> "SPRING_PROFILES_ACTIVE"
      [] env_var = "PATH=/usr/local/bin:/usr/bin"         -> "PATH"

RECURSIVE EnvLoop(_, _)
EnvLoop(env_vars, hints) ==
    IF env_vars = << >> THEN hints
    ELSE LET framework == ENV_HINTS(EnvKey(Head(env_vars)))
         IN  EnvLoop(Tail(env_vars),
                     IF framework # ""
                     THEN DictSet(hints, FwEntry(framework, DictGet(hints, framework) + 4))
                     ELSE hints)

\* Env: null makes the for loop raise before the first hint
EnvAnalyzer_analyze(c) ==
    Swallow(IF c.envNull THEN Raised(EmptyDict)
            ELSE Returned(EnvLoop(c.env, EmptyDict)))

(***************************************************************************)
(* core/detector/analyzers/file_analyzer.py                                *)
(***************************************************************************)
\* FILE_HINTS in iteration order
FILE_HINTS ==
    << [filename |-> "requirements.txt",
        patterns |-> << [fw |-> "FLASK",   pat |-> "flask"],
                        [fw |-> "DJANGO",  pat |-> "django"],
                        [fw |-> "FASTAPI", pat |-> "fastapi"] >>],
       [filename |-> "package.json",
        patterns |-> << [fw |-> "EXPRESS", pat |-> "express"],
                        [fw |-> "NESTJS",  pat |-> "@nestjs/core"] >>],
       [filename |-> "pom.xml",
        patterns |-> << [fw |-> "SPRING_BOOT", pat |-> "spring-boot"] >>] >>

RECURSIVE FilePatternLoop(_, _, _)
FilePatternLoop(content, patterns, hints) ==
    IF patterns = << >> THEN hints
    ELSE LET p == Head(patterns)
         IN  FilePatternLoop(content, Tail(patterns),
                IF ContainsCI(content, p.pat)
                THEN DictSet(hints, FwEntry(p.fw, DictGet(hints, p.fw) + 6))
                ELSE hints)

RECURSIVE FileLoop(_, _, _)
\* an exec that raises skips the file (except Exception: continue)
FileLoop(c, i, hints) ==
    IF i > Len(FILE_HINTS) THEN hints
    ELSE LET filename == FILE_HINTS[i].filename
         IN  FileLoop(c, i + 1,
                IF Raises(c, Cmd("test -f", filename)) THEN hints
                ELSE IF FileExit(c, filename) # 0 THEN hints
                ELSE IF Raises(c, Cmd("cat", filename)) THEN hints
                ELSE FilePatternLoop(c.fs[filename], FILE_HINTS[i].patterns, hints))

FileAnalyzer_analyze(c) == Swallow(Returned(FileLoop(c, 1, EmptyDict)))

(***************************************************************************)
(* core/detector/analyzers/package_analyzer.py                             *)
(***************************************************************************)
PYTHON_PACKAGES ==
    << [package |-> "flask",   fw |-> "FLASK"],
       [package |-> "Flask",   fw |-> "FLASK"],
       [package |-> "django",  fw |-> "DJANGO"],
       [package |-> "Django",  fw |-> "DJANGO"],
       [package |-> "fastapi", fw |-> "FASTAPI"],
       [package |-> "FastAPI", fw |-> "FASTAPI"] >>

NODEJS_PACKAGES ==
    << [package |-> "express",        fw |-> "EXPRESS"],
       [package |-> "@nestjs/core",   fw |-> "NESTJS"],
       [package |-> "@nestjs/common", fw |-> "NESTJS"] >>

JAVA_PACKAGES ==
    << [package |-> "spring-boot-starter",      fw |-> "SPRING_BOOT"],
       [package |-> "org.springframework.boot", fw |-> "SPRING_BOOT"] >>

\* the package name as re.IGNORECASE sees it
Lower(package) ==
    CASE package = "Flask"   -> "flask"
      [] package = "Django"  -> "django"
      [] package = "FastAPI" -> "fastapi"
      [] OTHER -> package

\* the key f'{framework}_version', kept as its text before '_version'
VersionKey(framework) == FrameworkStr(framework)

RECURSIVE RequirementsLoop(_, _, _)
RequirementsLoop(content, packages, hints) ==
    IF packages = << >> THEN hints
    ELSE LET p == Head(packages)
             counted == DictSet(hints, FwEntry(p.fw, DictGet(hints, p.fw) + 7))
             version == ContentVersion(content, Lower(p.package))
         IN  RequirementsLoop(content, Tail(packages),
                IF ~Contains(content, p.package) THEN hints
                ELSE IF version # "" THEN DictSet(counted, VerEntry(VersionKey(p.fw), version))
                ELSE counted)

RECURSIVE TextSearchLoop(_, _, _, _)
\* for package, framework in table: if package in content: hints[framework] += score
TextSearchLoop(content, packages, score, hints) ==
    IF packages = << >> THEN hints
    ELSE LET p == Head(packages)
         IN  TextSearchLoop(content, Tail(packages), score,
                IF Contains(content, p.package)
                THEN DictSet(hints, FwEntry(p.fw, DictGet(hints, p.fw) + score))
                ELSE hints)

\* the outcome of 'cat name' that a try block works on: << >> when the exec
\* raises or exits non-zero, else the one content
Cat(c, name) ==
    IF Raises(c, Cmd("cat", name)) \/ FileExit(c, name) # 0 THEN << >>
    ELSE << c.fs[name] >>

analyze_python(c) ==
    LET req == Cat(c, "requirements.txt")
        pip == Cat(c, "Pipfile")
        h1  == IF req = << >> THEN EmptyDict
               ELSE RequirementsLoop(req[1], PYTHON_PACKAGES, EmptyDict)
    IN  IF pip = << >> THEN h1
        ELSE TextSearchLoop(pip[1], PYTHON_PACKAGES, 6, h1)

\* json.loads raises JSONDecodeError on the content
JsonInvalid(content) == \E i \in 1..Len(content) : content[i] = "<<<<<<< HEAD"

\* a line of package.json that is an entry of dependencies or devDependencies:
\* << name, version >>, << >> for any other line
DependencyOf(line) ==
    CASE line = "express: ^4.18.2"        -> << "express", "^4.18.2" >>
      [] line = "@nestjs/core: ^10.0.0"   -> << "@nestjs/core", "^10.0.0" >>
      [] line = "@nestjs/common: ^10.0.0" -> << "@nestjs/common", "^10.0.0" >>
      [] line = "@opentelemetry/sdk-trace-node: ^1.17.0"
            -> << "@opentelemetry/sdk-trace-node", "^1.17.0" >>
      [] line = "@opentelemetry/resources: ^1.17.0"
            -> << "@opentelemetry/resources", "^1.17.0" >>
      [] line = "@opentelemetry/semantic-conventions: ^1.17.0"
            -> << "@opentelemetry/semantic-conventions", "^1.17.0" >>
      [] line = "@opentelemetry/exporter-trace-otlp-grpc: ^0.43.0"
            -> << "@opentelemetry/exporter-trace-otlp-grpc", "^0.43.0" >>
      [] line = "@opentelemetry/sdk-trace-base: ^1.17.0"
            -> << "@opentelemetry/sdk-trace-base", "^1.17.0" >>
      [] line = "@opentelemetry/instrumentation: ^0.43.0"
            -> << "@opentelemetry/instrumentation", "^0.43.0" >>
      [] line = "@opentelemetry/instrumentation-http: ^0.43.0"
            -> << "@opentelemetry/instrumentation-http", "^0.43.0" >>
      [] line = "@opentelemetry/instrumentation-express: ^0.33.0"
            -> << "@opentelemetry/instrumentation-express", "^0.33.0" >>
      [] OTHER -> << >>

\* {**dependencies, **devDependencies} as the set of << name, version >>
Dependencies(content) ==
    {DependencyOf(content[i]) : i \in 1..Len(content)} \ {<< >>}

RECURSIVE DependencyLoop(_, _, _)
DependencyLoop(dependencies, packages, hints) ==
    IF packages = << >> THEN hints
    ELSE LET p == Head(packages)
             found == {d \in dependencies : d[1] = p.package}
         IN  DependencyLoop(dependencies, Tail(packages),
                IF found = {} THEN hints
                ELSE DictSet(DictSet(hints, FwEntry(p.fw, DictGet(hints, p.fw) + 8)),
                             VerEntry(VersionKey(p.fw), (CHOOSE d \in found : TRUE)[2])))

analyze_nodejs_NoFallback(c) ==
    LET pkg == Cat(c, "package.json")
    IN  IF pkg = << >> THEN EmptyDict
        ELSE IF JsonInvalid(pkg[1])
             THEN EmptyDict
             ELSE DependencyLoop(Dependencies(pkg[1]), NODEJS_PACKAGES, EmptyDict)

\* _analyze_nodejs: json.loads, and the text search when it does not parse
analyze_nodejs(c) ==
    LET pkg == Cat(c, "package.json")
    IN  IF pkg = << >> THEN EmptyDict
        ELSE IF JsonInvalid(pkg[1])
             THEN TextSearchLoop(pkg[1], NODEJS_PACKAGES, 6, EmptyDict)
             ELSE DependencyLoop(Dependencies(pkg[1]), NODEJS_PACKAGES, EmptyDict)

analyze_java(c) ==
    LET pom    == Cat(c, "pom.xml")
        gradle == Cat(c, "build.gradle")
        h1     == IF pom = << >> THEN EmptyDict
                  ELSE TextSearchLoop(pom[1], JAVA_PACKAGES, 7, EmptyDict)
    IN  IF gradle = << >> THEN h1
        ELSE TextSearchLoop(gradle[1], JAVA_PACKAGES, 7, h1)

\* analyze has no handler of its own: each block of the three helpers has one
PackageAnalyzer_analyze(c) ==
    Returned(DictUpdate(DictUpdate(DictUpdate(EmptyDict, analyze_python(c)),
                                   analyze_nodejs(c)),
                        analyze_java(c)))

(***************************************************************************)
(* core/detector/framework_detector.py                                     *)
(***************************************************************************)
weights_Swapped ==
    [package |-> 3, process |-> 25, file |-> 20, http |-> 15, env |-> 7, port |-> 30]

\* the category weights, in hundredths
weights ==
    [package |-> 30, process |-> 25, file |-> 20, http |-> 15, env |-> 7, port |-> 3]

RECURSIVE Aggregate(_, _, _)
\* the inner loop over hints.items(): acc is [scores, version_hints]
Aggregate(hints, weight, acc) ==
    IF hints = << >> THEN acc
    ELSE LET e == Head(hints)
         IN  Aggregate(Tail(hints), weight,
                IF e.isver   \* isinstance(key, str) and '_version' in key
                THEN [acc EXCEPT !.version_hints = DictSet(@, VerEntry(e.key, e.ver))]
                ELSE [acc EXCEPT !.scores =
                        DictSet(@, FwEntry(e.key, DictGet(@, e.key) + e.score * weight))])

\* scores and version_hints after the loop over the six sources
Merged(port_hints, process_hints, http_hints, env_hints, file_hints, package_hints) ==
    LET a0 == [scores |-> EmptyDict, version_hints |-> EmptyDict]
        a1 == Aggregate(package_hints, weights.package, a0)
        a2 == Aggregate(process_hints, weights.process, a1)
        a3 == Aggregate(file_hints, weights.file, a2)
        a4 == Aggregate(http_hints, weights.http, a3)
        a5 == Aggregate(env_hints, weights.env, a4)
    IN  Aggregate(port_hints, weights.port, a5)

BestFramework_First(scores) == scores[1].key

\* max(scores, key=scores.get): the first key, in insertion order, whose value
\* no other key exceeds
BestFramework(scores) ==
    LET i == CHOOSE j \in 1..Len(scores) :
                /\ \A k \in 1..Len(scores) : scores[k].score <= scores[j].score
                /\ \A k \in 1..(j - 1) : scores[k].score < scores[j].score
    IN  scores[i].key

Cap_Missing(x) == x

\* min(x, 1.0)
Cap(x) == Min(x, 1000)

\* version_hints.get(key, None)
VersionGet(version_hints, key) ==
    IF DictHas(version_hints, key, TRUE)
    THEN version_hints[DictIndex(version_hints, key, TRUE)].ver
    ELSE None

\* language_map.get(framework, Language.UNKNOWN)
language_map(framework) ==
    CASE framework \in {"FLASK", "DJANGO", "FASTAPI"} -> "PYTHON"
      [] framework \in {"EXPRESS", "NESTJS"}          -> "NODEJS"
      [] framework = "SPRING_BOOT"                    -> "JAVA"
      [] OTHER                                        -> "UNKNOWN"

NoScores_Guess == [framework |-> "FLASK", language |-> "PYTHON", confidence |-> 0, version |-> None]

\* the return value when no score was merged
NoScores == [framework |-> "UNKNOWN", language |-> "UNKNOWN", confidence |-> 0, version |-> None]

combine_results(port_hints, process_hints, http_hints, env_hints, file_hints, package_hints) ==
    LET m == Merged(port_hints, process_hints, http_hints, env_hints, file_hints,
                    package_hints)
    IN  IF m.scores = << >> THEN NoScores
        ELSE LET best_framework == BestFramework(m.scores)
             IN  [framework  |-> best_framework,
                  language   |-> language_map(best_framework),
                  confidence |-> Cap(DictGet(m.scores, best_framework)),
                  version    |-> VersionGet(m.version_hints, FrameworkValue(best_framework))]

\* the outcomes of the six scanner calls of one detection pass
Scan(c) ==
    [port_hints    |-> PortScanner_scan(c),
     process_hints |-> ProcessScanner_scan(c),
     http_hints    |-> HTTPProber_probe(c),
     env_hints     |-> EnvAnalyzer_analyze(c),
     file_hints    |-> FileAnalyzer_analyze(c),
     package_hints |-> PackageAnalyzer_analyze(c)]

Sources == {"port_hints", "process_hints", "http_hints", "env_hints", "file_hints",
            "package_hints"}

\* the six evidence maps
Hints(outcomes) == [src \in Sources |-> outcomes[src].hints]

Combine(h) ==
    combine_results(h.port_hints, h.process_hints, h.http_hints, h.env_hints,
                    h.file_hints, h.package_hints)

NoHints == [src \in Sources |-> EmptyDict]

detect_Generic(c) ==
    IF ~c.exists
    THEN [raised |-> "RuntimeError", framework |-> "UNKNOWN", language |-> "UNKNOWN",
          confidence |-> 0, version |-> None, metadata |-> NoHints]
    ELSE LET outcomes == Scan(c)
             h == Hints(outcomes)
             r == Combine(h)
         IN  IF \E src \in Sources : outcomes[src].raised
             THEN [raised |-> "RuntimeError", framework |-> "UNKNOWN",
                   language |-> "UNKNOWN", confidence |-> 0, version |-> None,
                   metadata |-> NoHints]
             ELSE [raised |-> None, framework |-> r.framework, language |-> r.language,
                   confidence |-> r.confidence, version |-> r.version, metadata |-> h]

\* FrameworkDetector.detect: the DetectionResult, or the exception it raises
detect(c) ==
    IF ~c.exists
    THEN [raised |-> "ValueError", framework |-> "UNKNOWN", language |-> "UNKNOWN",
          confidence |-> 0, version |-> None, metadata |-> NoHints]
    ELSE LET outcomes == Scan(c)
             h == Hints(outcomes)
             r == Combine(h)
         IN  IF \E src \in Sources : outcomes[src].raised
             THEN \* except Exception as e: raise RuntimeError
                  [raised |-> "RuntimeError", framework |-> "UNKNOWN",
                   language |-> "UNKNOWN", confidence |-> 0, version |-> None,
                   metadata |-> NoHints]
             ELSE [raised |-> None, framework |-> r.framework, language |-> r.language,
                   confidence |-> r.confidence, version |-> r.version, metadata |-> h]

(***************************************************************************)
(* core/instrumentor/base.py                                               *)
(***************************************************************************)
InstrumentationStatus == {"NOT_INSTRUMENTED", "INSTRUMENTED", "FAILED", "PARTIAL"}

\* InstrumentationResult; modifications is [] when not given (__post_init__)
InstrumentationResult(framework, status, error_message, modifications) ==
    [framework |-> framework, status |-> status,
     error_message |-> error_message, modifications |-> modifications]

(***************************************************************************)
(* What an instrumentor step leaves behind: the container after the step,  *)
(* and str(e) of the exception that left it (None when it returned).       *)
(* A write command is taken to replace the file by the text handed to it.  *)
(***************************************************************************)
Ok(c) == [c |-> c, err |-> None, failed |-> FALSE]

Fail(c, msg) == [c |-> c, err |-> msg, failed |-> TRUE]

\* a command of the step exited non-zero and the step does not look at the
\* exit code: nothing raised, nothing done
Ignored(c) == [c |-> c, err |-> None, failed |-> TRUE]

\* str(e) of the docker API error of an exec_run that raises
APIError == "500 Server Error: exec failed"

\* exec_run of the shell command that writes content to the file; on a
\* read-only file system the shell exits non-zero and the file stays as it is
ExecWrite(c, name, content) ==
    IF Raises(c, Cmd("write", name)) THEN Fail(c, APIError)
    ELSE IF c.readonly THEN Ignored(c)
    ELSE Ok([c EXCEPT !.fs[name] = content])

\* exec_run("rm -f name")
ExecRm(c, name) ==
    IF Raises(c, Cmd("rm -f", name)) THEN Fail(c, APIError)
    ELSE IF c.readonly THEN Ignored(c)
    ELSE Ok([c EXCEPT !.fs[name] = Absent])

RECURSIVE StripHead(_)
StripHead(lines) ==
    IF lines # << >> /\ Head(lines) = "" THEN StripHead(Tail(lines)) ELSE lines

\* str.strip() of a text, as lines
Strip(lines) == Reverse(StripHead(Reverse(StripHead(lines))))

\* line.strip().startswith('import ') or line.strip().startswith('from ')
IsImportLine(line) ==
    line \in {"from flask import Flask", "from fastapi import FastAPI", "import os",
              "import otel_init  # ObsStack instrumentation",
              "import otel_init  # ObsStack", "    import otel_init  # ObsStack"}

\* list.insert(i - 1, x) on a 1-based sequence: x becomes element i
InsertAt(lines, i, x) ==
    SubSeq(lines, 1, i - 1) \o << x >> \o SubSeq(lines, i, Len(lines))

\* index of the first line containing the needle, 0 when there is none
FirstLineWith(lines, needle) ==
    IF \E i \in 1..Len(lines) : needle \in Subs(lines[i])
    THEN CHOOSE i \in 1..Len(lines) :
            /\ needle \in Subs(lines[i])
            /\ \A k \in 1..(i - 1) : needle \notin Subs(lines[k])
    ELSE 0

\* index of the first import line; the first line when there is none
FirstImport(lines) ==
    IF \E i \in 1..Len(lines) : IsImportLine(lines[i])
    THEN CHOOSE i \in 1..Len(lines) :
            /\ IsImportLine(lines[i])
            /\ \A k \in 1..(i - 1) : ~IsImportLine(lines[k])
    ELSE 1

(***************************************************************************)
(* core/instrumentor/otel_config.py                                        *)
(***************************************************************************)
generate_requirements_additions(framework) ==
    << "opentelemetry-api>=1.21.0", "opentelemetry-sdk>=1.21.0",
       "opentelemetry-exporter-otlp>=1.21.0" >> \o
    (CASE framework = "flask"   -> << "opentelemetry-instrumentation-flask>=0.42b0" >>
       [] framework = "django"  -> << "opentelemetry-instrumentation-django>=0.42b0" >>
       [] framework = "fastapi" -> << "opentelemetry-instrumentation-fastapi>=0.42b0" >>
       [] OTHER -> << >>)

generate_package_json_additions(framework) ==
    << "@opentelemetry/sdk-trace-node: ^1.17.0",
       "@opentelemetry/resources: ^1.17.0",
       "@opentelemetry/semantic-conventions: ^1.17.0",
       "@opentelemetry/exporter-trace-otlp-grpc: ^0.43.0",
       "@opentelemetry/sdk-trace-base: ^1.17.0",
       "@opentelemetry/instrumentation: ^0.43.0",
       "@opentelemetry/instrumentation-http: ^0.43.0" >> \o
    (IF framework = "express"
     THEN << "@opentelemetry/instrumentation-express: ^0.33.0" >> ELSE << >>)

\* the generated bootstrap module, one line standing for its text
generate_otel_code(framework) ==
    CASE framework = "flask"   -> << "# OpenTelemetry bootstrap: instrument_flask_app" >>
      [] framework = "django"  -> << "# OpenTelemetry bootstrap: instrument_django" >>
      [] framework = "fastapi" -> << "# OpenTelemetry bootstrap: instrument_fastapi_app" >>
      [] framework = "express" -> << "// OpenTelemetry bootstrap: express" >>

(***************************************************************************)
(* core/instrumentor/python/*.py and core/instrumentor/nodejs/*.py         *)
(***************************************************************************)
\* _update_requirements of the three Python instrumentors: no check for an
\* earlier run, the exit code of the write is not looked at
update_requirements(c, framework) ==
    IF Raises(c, Cmd("cat", "requirements.txt")) THEN Fail(c, APIError)
    ELSE LET existing == IF FileExit(c, "requirements.txt") = 0
                         THEN c.fs["requirements.txt"] ELSE << >>
             new_requirements ==
                 (IF Strip(existing) = << >> THEN << "" >> ELSE Strip(existing))
                    \o << "", "# ObsStack OpenTelemetry" >>
                    \o generate_requirements_additions(framework)
         IN  ExecWrite(c, "requirements.txt", new_requirements)

RECURSIVE DepsUpdate(_, _)
\* dict.update on the dependencies: a new name is appended, a known one
\* keeps its place and takes the new value
DepsUpdate(content, new_deps) ==
    IF new_deps = << >> THEN content
    ELSE LET d == Head(new_deps)
             known == \E i \in 1..Len(content) :
                         /\ DependencyOf(content[i]) # << >>
                         /\ DependencyOf(content[i])[1] = DependencyOf(d)[1]
         IN  DepsUpdate(IF known
                        THEN [i \in 1..Len(content) |->
                                IF /\ DependencyOf(content[i]) # << >>
                                   /\ DependencyOf(content[i])[1] = DependencyOf(d)[1]
                                THEN d ELSE content[i]]
                        ELSE Append(content, d),
                        Tail(new_deps))

\* ExpressInstrumentor._update_package_json
update_package_json(c) ==
    IF Raises(c, Cmd("cat", "package.json")) THEN Fail(c, APIError)
    ELSE IF FileExit(c, "package.json") # 0 THEN Fail(c, "Could not read package.json")
    ELSE IF JsonInvalid(c.fs["package.json"])
         THEN Fail(c, "Expecting value: line 1 column 1 (char 0)")
    ELSE ExecWrite(c, "package.json",
                   DepsUpdate(c.fs["package.json"],
                              generate_package_json_additions("express")))

\* the file the bootstrap code goes to
OtelFile(framework) == IF framework = "express" THEN "otel.js" ELSE "otel_init.py"

\* _create_otel_file
create_otel_file(c, framework) ==
    ExecWrite(c, OtelFile(framework), generate_otel_code(framework))

Flask_modify_app_file_NoMarker(c) ==
    IF Raises(c, Cmd("cat", "app.py")) THEN Fail(c, APIError)
    ELSE IF FileExit(c, "app.py") # 0 THEN Fail(c, "Could not read app.py")
    ELSE LET app_code == c.fs["app.py"]
             lines == InsertAt(app_code, FirstImport(app_code),
                               "import otel_init  # ObsStack instrumentation")
             i == FirstLineWith(lines, "Flask(__name__)")
             modified_code ==
                 IF i = 0 THEN lines
                 ELSE InsertAt(lines, i + 1,
                               "app = otel_init.instrument_flask_app(app)")
         IN  ExecWrite(c, "app.py", modified_code)

\* FlaskInstrumentor._modify_app_file
Flask_modify_app_file(c) ==
    IF Raises(c, Cmd("cat", "app.py")) THEN Fail(c, APIError)
    ELSE IF FileExit(c, "app.py") # 0 THEN Fail(c, "Could not read app.py")
    ELSE LET app_code == c.fs["app.py"] IN
         IF Contains(app_code, "otel_init") THEN Ok(c)
         ELSE LET lines == InsertAt(app_code, FirstImport(app_code),
                                    "import otel_init  # ObsStack instrumentation")
                  i == FirstLineWith(lines, "Flask(__name__)")
                  modified_code ==
                      IF i = 0 THEN lines
                      ELSE InsertAt(lines, i + 1,
                                    "app = otel_init.instrument_flask_app(app)")
              IN  ExecWrite(c, "app.py", modified_code)

\* DjangoInstrumentor._modify_manage_py: a manage.py that cannot be read is
\* passed over in silence
modify_manage_py(c) ==
    IF Raises(c, Cmd("cat", "manage.py")) THEN Fail(c, APIError)
    ELSE IF FileExit(c, "manage.py") # 0 THEN Ignored(c)
    ELSE LET code == c.fs["manage.py"] IN
         IF Contains(code, "otel_init") THEN Ok(c)
         ELSE LET i == FirstLineWith(code, "if __name__")
                  modified == IF i = 0 THEN code
                              ELSE InsertAt(code, i, "    import otel_init  # ObsStack")
              IN  ExecWrite(c, "manage.py", modified)

RECURSIVE modify_main_file_loop(_, _)
\* FastAPIInstrumentor._modify_main_file: the first readable of the files
modify_main_file_loop(c, filenames) ==
    IF filenames = << >> THEN Ignored(c)
    ELSE LET filename == Head(filenames) IN
         IF Raises(c, Cmd("cat", filename)) THEN Fail(c, APIError)
         ELSE IF FileExit(c, filename) # 0
              THEN modify_main_file_loop(c, Tail(filenames))
         ELSE LET code == c.fs[filename] IN
              IF Contains(code, "otel_init") THEN Ok(c)
              ELSE LET lines == InsertAt(code, FirstImport(code),
                                         "import otel_init  # ObsStack")
                       i == FirstLineWith(lines, "FastAPI()")
                       modified ==
                           IF i = 0 THEN lines
                           ELSE InsertAt(lines, i + 1,
                                         "app = otel_init.instrument_fastapi_app(app)")
                   IN  ExecWrite(c, filename, modified)

modify_main_file(c) == modify_main_file_loop(c, << "main.py", "app.py" >>)

RECURSIVE Express_modify_app_file_loop(_, _)
\* ExpressInstrumentor._modify_app_file
Express_modify_app_file_loop(c, filenames) ==
    IF filenames = << >> THEN Ignored(c)
    ELSE LET filename == Head(filenames) IN
         IF Raises(c, Cmd("cat", filename)) THEN Fail(c, APIError)
         ELSE IF FileExit(c, filename) # 0
              THEN Express_modify_app_file_loop(c, Tail(filenames))
         ELSE LET code == c.fs[filename] IN
              IF Contains(code, "otel.js") THEN Ok(c)
              ELSE ExecWrite(c, filename,
                             << "// ObsStack OpenTelemetry", "require('./otel.js');", "" >>
                                \o code)

Express_modify_app_file(c) ==
    Express_modify_app_file_loop(c, << "app.js", "server.js", "index.js" >>)

\* the name a manifest line installs, "" for a line that names no package
RequirementName(line) ==
    CASE line = "Flask==2.3.0"      -> "Flask"
      [] line = "flask-cors==4.0.0" -> "flask-cors"
      [] line = "Django==4.2.0"     -> "Django"
      [] line = "fastapi==0.104.0"  -> "fastapi"
      [] line = "requests==2.31.0"  -> "requests"
      [] line = "opentelemetry-api>=1.21.0"           -> "opentelemetry-api"
      [] line = "opentelemetry-sdk>=1.21.0"           -> "opentelemetry-sdk"
      [] line = "opentelemetry-exporter-otlp>=1.21.0" -> "opentelemetry-exporter-otlp"
      [] line = "opentelemetry-instrumentation-flask>=0.42b0"
            -> "opentelemetry-instrumentation-flask"
      [] line = "opentelemetry-instrumentation-django>=0.42b0"
            -> "opentelemetry-instrumentation-django"
      [] line = "opentelemetry-instrumentation-fastapi>=0.42b0"
            -> "opentelemetry-instrumentation-fastapi"
      [] OTHER -> IF DependencyOf(line) # << >> THEN DependencyOf(line)[1] ELSE ""

\* the packages a manifest names
Packages(content) == {RequirementName(content[i]) : i \in 1..Len(content)} \ {""}

\* the install command of the framework and the manifest it reads
InstallCmd(framework) ==
    IF framework = "express" THEN Cmd("npm install", "")
    ELSE Cmd("pip install -r", "requirements.txt")

Manifest(framework) == IF framework = "express" THEN "package.json" ELSE "requirements.txt"

InstallError(framework) ==
    CASE framework = "flask"   -> "Package installation failed: "
      [] framework = "express" -> "npm install failed: "
      [] OTHER                 -> "Installation failed: "

\* _install_packages: the installer exits with the code the container gives it
install_packages(c, framework) ==
    IF Raises(c, InstallCmd(framework)) THEN Fail(c, APIError)
    ELSE IF c.installExit # 0 THEN Fail(c, InstallError(framework))
    ELSE Ok([c EXCEPT !.installed = @ \cup Packages(c.fs[Manifest(framework)])])

\* the four steps of instrument(), in the order the code runs them
Step(k, c, framework) ==
    CASE k = 1 -> IF framework = "express" THEN update_package_json(c)
                  ELSE update_requirements(c, framework)
      [] k = 2 -> create_otel_file(c, framework)
      [] k = 3 -> (CASE framework = "flask"   -> Flask_modify_app_file(c)
                     [] framework = "django"  -> modify_manage_py(c)
                     [] framework = "fastapi" -> modify_main_file(c)
                     [] framework = "express" -> Express_modify_app_file(c))
      [] k = 4 -> install_packages(c, framework)

\* what modifications.append records after step k
StepLabel(k, framework) ==
    CASE framework = "flask" ->
            << "Added OpenTelemetry packages to requirements.txt", "Created otel_init.py",
               "Modified app.py to import OpenTelemetry",
               "Installed OpenTelemetry packages" >>[k]
      [] framework = "django" ->
            << "Added OpenTelemetry packages", "Created otel_init.py",
               "Modified manage.py", "Installed packages" >>[k]
      [] framework = "fastapi" ->
            << "Added OpenTelemetry packages", "Created otel_init.py",
               "Modified main.py", "Installed packages" >>[k]
      [] framework = "express" ->
            << "Updated package.json", "Created otel.js", "Modified app entry point",
               "Installed OpenTelemetry packages" >>[k]

RestartNote == "Container restart required"

RECURSIVE RunSteps(_, _, _, _)
RunSteps_NoteOnFailure(k, c, framework, modifications) ==
    IF k > 4
    THEN [c |-> c,
          result |-> InstrumentationResult(framework, "INSTRUMENTED", None,
                                           Append(modifications, RestartNote)),
          steps |-> << >>]
    ELSE CHOOSE r \in UNION
            {IF s.err # None
             THEN {[c |-> s.c,
                    result |-> InstrumentationResult(framework, "FAILED", s.err,
                                                     Append(modifications, RestartNote)),
                    steps |-> << TRUE >>]}
             ELSE {[rest EXCEPT !.steps = << s.failed >> \o @]
                     : rest \in {RunSteps(k + 1, s.c, framework,
                                          Append(modifications, StepLabel(k, framework)))}}
                : s \in {Step(k, c, framework)}} : TRUE

\* the try block of instrument(): a step that raises ends the run with the
\* modifications recorded so far.  steps lists, for every step that was
\* executed, whether it failed.
RunSteps(k, c, framework, modifications) ==
    IF k > 4
    THEN [c |-> c,
          result |-> InstrumentationResult(framework, "INSTRUMENTED", None,
                                           Append(modifications, RestartNote)),
          steps |-> << >>]
    ELSE CHOOSE r \in UNION
            {IF s.err # None
             THEN {[c |-> s.c,
                    result |-> InstrumentationResult(framework, "FAILED", s.err,
                                                     modifications),
                    steps |-> << TRUE >>]}
             ELSE {[rest EXCEPT !.steps = << s.failed >> \o @]
                     : rest \in {RunSteps(k + 1, s.c, framework,
                                          Append(modifications, StepLabel(k, framework)))}}
                : s \in {Step(k, c, framework)}} : TRUE

\* instrument() of FlaskInstrumentor, DjangoInstrumentor, FastAPIInstrumentor
\* and ExpressInstrumentor
Instrumentor_instrument(c, framework) == RunSteps(1, c, framework, << >>)

\* the package 'pip show' asks for
TelemetryPackage == "opentelemetry-api"

\* exit code of 'pip show package'
PipShowExit(c, package) == IF package \in c.installed THEN 0 ELSE 1

\* verify_instrumentation of the four instrumentors; an exec_run that raises
\* leaves the method with the exception
Instrumentor_verify_instrumentation(c, framework) ==
    IF Raises(c, Cmd("test -f", OtelFile(framework)))
    THEN [raised |-> TRUE, value |-> FALSE]
    ELSE IF framework \in {"fastapi", "express"}
    THEN [raised |-> FALSE, value |-> FileExit(c, OtelFile(framework)) = 0]
    ELSE IF FileExit(c, OtelFile(framework)) # 0
    THEN [raised |-> FALSE, value |-> FALSE]
    ELSE IF Raises(c, Cmd("pip show", TelemetryPackage))
    THEN [raised |-> TRUE, value |-> FALSE]
    ELSE [raised |-> FALSE, value |-> PipShowExit(c, TelemetryPackage) = 0]

\* [l for l in lines if 'opentelemetry' not in l.lower()
\*                    and 'obsstack' not in l.lower()]
WithoutTelemetry(lines) ==
    SelectSeq(lines, LAMBDA l : "opentelemetry" \notin SubsCI(l) /\ "obsstack" \notin SubsCI(l))

\* FlaskInstrumentor.rollback after the rm: requirements.txt is written again
\* without the telemetry lines
Flask_rollback_requirements(c) ==
    IF Raises(c, Cmd("cat", "requirements.txt")) THEN Fail(c, APIError)
    ELSE IF FileExit(c, "requirements.txt") # 0 THEN Ok(c)
    ELSE ExecWrite(c, "requirements.txt", WithoutTelemetry(c.fs["requirements.txt"]))

\* rollback of the four instrumentors: the container it leaves and the
\* boolean it returns
Instrumentor_rollback(c, framework) ==
    CHOOSE r \in
       {IF rm.err # None THEN [c |-> rm.c, value |-> FALSE]
        ELSE IF framework # "flask" THEN [c |-> rm.c, value |-> TRUE]
        ELSE CHOOSE q \in {[c |-> w.c, value |-> w.err = None]
                              : w \in {Flask_rollback_requirements(rm.c)}} : TRUE
           : rm \in {ExecRm(c, OtelFile(framework))}} : TRUE

(***************************************************************************)
(* core/instrumentor/orchestrator.py                                       *)
(***************************************************************************)
\* self.instrumentors.get(framework): the instrumentor's framework name
instrumentors(framework) ==
    CASE framework = "FLASK"   -> "flask"
      [] framework = "DJANGO"  -> "django"
      [] framework = "FASTAPI" -> "fastapi"
      [] framework = "EXPRESS" -> "express"
      [] OTHER -> None

\* a result the orchestrator builds itself: nothing was touched
Refused(c, framework, error_message) ==
    [c |-> c, result |-> InstrumentationResult(framework, "FAILED", error_message, << >>),
     steps |-> << >>]

instrument_container_Fallback(c) ==
    IF ~c.exists THEN Refused(c, "unknown", "Container not found")
    ELSE CHOOSE r \in
            {IF detection_result.raised # None
             THEN Refused(c, "unknown", "Detection failed")
             ELSE Instrumentor_instrument(c,
                     IF instrumentors(detection_result.framework) = None THEN "flask"
                     ELSE instrumentors(detection_result.framework))
                : detection_result \in {detect(c)}} : TRUE

\* InstrumentationOrchestrator.instrument_container: the container it
\* leaves and the result it returns
instrument_container(c) ==
    IF ~c.exists THEN Refused(c, "unknown", "Container not found")
    ELSE CHOOSE r \in
            {IF detection_result.raised # None
             THEN Refused(c, "unknown", "Detection failed")
             ELSE IF detection_result.framework = "UNKNOWN"
             THEN Refused(c, "unknown", "Could not detect framework")
             ELSE IF instrumentors(detection_result.framework) = None
             THEN Refused(c, FrameworkValue(detection_result.framework),
                          "Instrumentation not yet supported")
             ELSE Instrumentor_instrument(c, instrumentors(detection_result.framework))
                : detection_result \in {detect(c)}} : TRUE

\* InstrumentationOrchestrator.verify_instrumentation
verify_instrumentation(c) ==
    IF ~c.exists THEN FALSE
    ELSE CHOOSE b \in
            {IF detection_result.raised # None THEN FALSE
             ELSE IF instrumentors(detection_result.framework) = None THEN FALSE
             ELSE CHOOSE v \in {~r.raised /\ r.value
                                  : r \in {Instrumentor_verify_instrumentation(
                                             c, instrumentors(detection_result.framework))}}
                     : TRUE
                : detection_result \in {detect(c)}} : TRUE

\* InstrumentationOrchestrator.rollback_instrumentation: the container it
\* leaves and the boolean it returns
rollback_instrumentation(c) ==
    IF ~c.exists THEN [c |-> c, value |-> FALSE]
    ELSE CHOOSE r \in
            {IF detection_result.raised # None THEN [c |-> c, value |-> FALSE]
             ELSE IF instrumentors(detection_result.framework) = None
             THEN [c |-> c, value |-> FALSE]
             ELSE Instrumentor_rollback(c, instrumentors(detection_result.framework))
                : detection_result \in {detect(c)}} : TRUE

(***************************************************************************)
(* cli/commands/detect_all.py and cli/commands/instrument_all.py           *)
(***************************************************************************)
\* an entry of the results list: the result and the container (by its place
\* in the list of containers) that its container_id names
ResultEntry(i, result) == [target |-> i, result |-> result]

\* console.print of the except branch: the container and the exception
ErrorLine(i, e) == [target |-> i, message |-> e]

\* one pass of the loop of detect_all_command on container i: the result is
\* appended when detect returns, an exception is printed and nothing is
\* appended
detect_all_iteration(c, i, results_, errors_) ==
    CHOOSE r \in
       {IF result.raised # None
        THEN [c |-> c, results |-> results_,
              errors |-> Append(errors_, ErrorLine(i, result.raised))]
        ELSE [c |-> c, results |-> Append(results_, ResultEntry(i, result)),
              errors |-> errors_]
           : result \in {detect(c)}} : TRUE

instrument_all_iteration_DropFailed(c, i, results_, errors_) ==
    CHOOSE r \in
       {IF run.result.status = "FAILED"
        THEN [c |-> run.c, results |-> results_,
              errors |-> Append(errors_, ErrorLine(i, run.result.error_message))]
        ELSE [c |-> run.c, results |-> Append(results_, ResultEntry(i, run.result)),
              errors |-> errors_]
           : run \in {instrument_container(c)}} : TRUE

\* one pass of the loop of instrument_all_command on container i:
\* instrument_container catches every exception itself, so its result is
\* always appended
instrument_all_iteration(c, i, results_, errors_) ==
    CHOOSE r \in
       {[c |-> run.c, results |-> Append(results_, ResultEntry(i, run.result)),
         errors |-> errors_]
           : run \in {instrument_container(c)}} : TRUE

(***************************************************************************)
(* State                                                                   *)
(***************************************************************************)
VARIABLES
    target,           \* the container the operations are called on
    op,               \* the operation called last
    detection,        \* what the last detect call returned or raised
    instrumentation,  \* the InstrumentationResult of the last instrument call
    calls,            \* how many instrument and rollback calls were made
    executed,         \* for each step the last instrument call ran: did it fail
    answer,           \* the boolean the last verify or rollback call returned
    log,              \* the instrument and rollback calls so far, with their outcome
    command,          \* the batch command that is running, "none" when none is
    containers,       \* the containers docker listed, as they were then
    fleet,            \* the same containers as they are now
    cursor,           \* the place in the list of the container the loop is at
    results,          \* the results list of the batch command
    errors            \* the error lines the batch command printed

single == << target, op, detection, instrumentation, calls, executed, answer, log >>

batch == << command, containers, fleet, cursor, results, errors >>

vars == << single, batch >>

(***************************************************************************)
(* Bounds and input domains                                                *)
(***************************************************************************)
MaxPorts == 2

MaxEnv == 2

MaxLines == 2

MaxProcs == 1

\* processes in a listing of the family of containers that has only processes
MaxListed == 2

MaxRaises == 1

\* how many times instrument_container is called on the container
MaxCalls == 2

\* how many containers docker lists
MaxFleet == 3

\* the sequences of at most n distinct elements of S
DistinctSeqs(S, n) ==
    UNION {{s \in [1..k -> S] : \A i, j \in 1..k : i # j => s[i] # s[j]} : k \in 0..n}

\* the subsets of S with at most n elements
SmallSubsets(S, n) == {x \in SUBSET S : Cardinality(x) <= n}

PortKeyDomain == {"5000/tcp", "3000/tcp", "4000/tcp"}

EnvDomain ==
    {"FLASK_APP=app.py", "DJANGO_SETTINGS_MODULE=site.settings", "PATH=/usr/local/bin:/usr/bin"}

ProcDomain == {"python app.py", "python manage.py runserver", "java -jar app.jar"}

PortsDefault == [null |-> FALSE, keys |-> << >>]

PortsOptions ==
    {[null |-> TRUE, keys |-> << >>]}
        \cup {[null |-> FALSE, keys |-> s] : s \in DistinctSeqs(PortKeyDomain, MaxPorts)}

EnvDefault == [null |-> FALSE, vars |-> << >>]

EnvOptions ==
    {[null |-> TRUE, vars |-> << >>]}
        \cup {[null |-> FALSE, vars |-> s] : s \in DistinctSeqs(EnvDomain, MaxEnv)}

\* a server that accepts no connection
HttpDown == [up |-> FALSE, server |-> "", powered |-> "", live |-> {}]

HttpDefault == [ip |-> FALSE, http |-> HttpDown]

HttpOptions ==
    {HttpDefault,
     [ip |-> TRUE, http |-> HttpDown],
     [ip |-> TRUE, http |-> [up |-> TRUE, server |-> "Werkzeug/2.3.7 Python/3.11.6",
                             powered |-> "", live |-> {}]],
     [ip |-> TRUE, http |-> [up |-> TRUE, server |-> "", powered |-> "PHP/8.2.12",
                             live |-> {}]],
     [ip |-> TRUE, http |-> [up |-> TRUE, server |-> "", powered |-> "Express",
                             live |-> {}]],
     [ip |-> TRUE, http |-> [up |-> TRUE, server |-> "", powered |-> "",
                             live |-> {"/swagger/", "/actuator/"}]]}

PsDefault == [exit |-> 0, lines |-> {}]

\* process listings of containers that run more than one program
ListingDomain ==
    {"python app.py", "python main.py", "python3 -m http.server", "gunicorn app:app",
     "uvicorn main:app", "node app.js", "node server.js", "npm start",
     "java -jar app.jar", "java Main", "sleep infinity"}

ListingOptions ==
    {[exit |-> 0, lines |-> x] : x \in SmallSubsets(ListingDomain, MaxListed)}

PsOptions ==
    {[exit |-> 1, lines |-> {}]}
        \cup {[exit |-> 0, lines |-> x] : x \in SmallSubsets(ProcDomain, MaxProcs)}

\* a manifest: absent, or at most MaxLines distinct lines of its domain
ManifestOptions(lines) == {Absent} \cup (DistinctSeqs(lines, MaxLines) \ {<< >>})

RequirementsOptions ==
    ManifestOptions({"Flask==2.3.0", "Django==4.2.0"})

PipfileOptions == ManifestOptions({"flask = \"*\""})

PackageJsonOptions == ManifestOptions({"express: ^4.18.2", "<<<<<<< HEAD"})

PomOptions ==
    ManifestOptions({"<groupId>org.springframework.boot</groupId>",
                     "<artifactId>spring-boot-starter-web</artifactId>"})

GradleOptions ==
    {Absent, << "implementation 'org.springframework.boot:spring-boot-starter-web'" >>}

RaisesDomain == {Cmd("ps aux", ""), Cmd("test -f", "package.json"), Cmd("cat", "Pipfile")}

RaisesOptions == SmallSubsets(RaisesDomain, MaxRaises)

\* a container with nothing in it
EmptyFs == [name \in FileNames |-> Absent]

Container(ports, env, web, ps, req, pip, pkg, pom, gradle, raises) ==
    [exists    |-> TRUE,
     portsNull |-> ports.null,
     ports     |-> ports.keys,
     envNull   |-> env.null,
     env       |-> env.vars,
     ip        |-> web.ip,
     http      |-> web.http,
     psExit    |-> ps.exit,
     ps        |-> ps.lines,
     fs        |-> [EmptyFs EXCEPT !["requirements.txt"] = req,
                                   !["Pipfile"] = pip,
                                   !["package.json"] = pkg,
                                   !["pom.xml"] = pom,
                                   !["build.gradle"] = gradle],
     installed   |-> {},
     installExit |-> 0,
     readonly    |-> FALSE,
     restarts    |-> 0,
     raises    |-> raises]

EmptyContainer ==
    Container(PortsDefault, EnvDefault, HttpDefault, PsDefault,
              Absent, Absent, Absent, Absent, Absent, {})

NeverDetected ==
    [raised |-> None, framework |-> "UNKNOWN", language |-> "UNKNOWN",
     confidence |-> 0, version |-> None, metadata |-> NoHints]

\* the containers detection is run on: every combination of the runtime
\* surfaces (ports, variables, HTTP behaviour, processes) with a requirements
\* manifest, every combination of the manifests with the process listing and
\* the commands that raise, and the containers that only run several programs
InitTarget ==
    \/ \E ports \in PortsOptions, env \in EnvOptions, web \in HttpOptions,
          ps \in PsOptions, req \in RequirementsOptions :
           target = Container(ports, env, web, ps, req, Absent, Absent, Absent, Absent, {})
    \/ \E ps \in PsOptions, req \in RequirementsOptions, pip \in PipfileOptions,
          pkg \in PackageJsonOptions, pom \in PomOptions, gradle \in GradleOptions,
          raises \in RaisesOptions :
           target = Container(PortsDefault, EnvDefault, HttpDefault, ps,
                              req, pip, pkg, pom, gradle, raises)
    \/ \E ps \in ListingOptions :
           target = Container(PortsDefault, EnvDefault, HttpDefault, ps,
                              Absent, Absent, Absent, Absent, Absent, {})

\* no instrument call has returned yet
NeverInstrumented == InstrumentationResult("unknown", "NOT_INSTRUMENTED", None, << >>)

\* nothing has been called yet
Fresh ==
    /\ op = "init"
    /\ detection = NeverDetected
    /\ instrumentation = NeverInstrumented
    /\ calls = 0
    /\ executed = << >>
    /\ answer = FALSE
    /\ log = << >>

\* no batch command is running
NoBatch ==
    /\ command = "none"
    /\ containers = << >>
    /\ fleet = << >>
    /\ cursor = 1
    /\ results = << >>
    /\ errors = << >>

InitDetect ==
    /\ \/ InitTarget
       \/ target = [EmptyContainer EXCEPT !.exists = FALSE]
    /\ Fresh
    /\ NoBatch

\* the application's entry file: none, or one file with its code
EntryOptions ==
    {[name |-> "app.py", code |-> Absent],
     [name |-> "app.py", code |-> << "from flask import Flask", "app = Flask(__name__)" >>],
     [name |-> "app.py", code |-> << "from fastapi import FastAPI", "app = FastAPI()" >>],
     [name |-> "main.py", code |-> << "from fastapi import FastAPI", "app = FastAPI()" >>],
     [name |-> "manage.py", code |-> << "import os", "if __name__ == '__main__':" >>],
     [name |-> "app.js", code |-> << "const express = require('express')" >>],
     [name |-> "server.js", code |-> << "const express = require('express')" >>]}

AppRequirementsOptions ==
    {Absent, << "Flask==2.3.0" >>, << "Django==4.2.0" >>, << "fastapi==0.104.0" >>,
     << "", "Flask==2.3.0", "" >>}

AppPackageJsonOptions ==
    {Absent, << "name: express-demo", "express: ^4.18.2" >>, << "<<<<<<< HEAD" >>}

AppHttpOptions ==
    {HttpDefault,
     [ip |-> TRUE, http |-> [up |-> TRUE, server |-> "", powered |-> "PHP/8.2.12",
                             live |-> {}]]}

AppPomOptions == {Absent, << "<artifactId>spring-boot-starter-web</artifactId>" >>}

\* the commands of the instrumentors that may raise
AppRaisesDomain ==
    {Cmd("cat", "requirements.txt"), Cmd("write", "otel_init.py"), Cmd("cat", "app.py"),
     Cmd("write", "package.json"), Cmd("pip install -r", "requirements.txt")}

\* the bootstrap files of a read-only file system: none, or the ones that
\* were put there while it could be written
BootstrapOptions ==
    {[py |-> Absent, js |-> Absent],
     [py |-> generate_otel_code("flask"), js |-> generate_otel_code("express")]}

\* requirements.txt of an application that lists a telemetry package already
TelemetryRequirementsOptions ==
    {<< "opentelemetry-instrumentation-flask>=0.42b0" >>,
     << "Flask==2.3.0", "opentelemetry-instrumentation-flask>=0.42b0" >>}

\* the commands of verify and rollback that may raise
UndoRaisesDomain == {Cmd("rm -f", "otel_init.py"), Cmd("rm -f", "otel.js")}

\* the containers the orchestrator is run on: an application with its
\* manifest and entry file, and with commands that raise, or with an
\* installer that fails, or with an HTTP behaviour and a Maven file, or on a
\* read-only file system with or without bootstrap files, or with an rm
\* that raises, or with a manifest that lists a telemetry package already
InitApp ==
    \/ \E req \in AppRequirementsOptions, pkg \in AppPackageJsonOptions,
          entry \in EntryOptions, raises \in SmallSubsets(AppRaisesDomain, MaxRaises) :
           target = [Container(PortsDefault, EnvDefault, HttpDefault, PsDefault,
                               req, Absent, pkg, Absent, Absent, raises)
                       EXCEPT !.fs[entry.name] = entry.code]
    \/ \E req \in AppRequirementsOptions, pkg \in AppPackageJsonOptions,
          entry \in EntryOptions :
           target = [Container(PortsDefault, EnvDefault, HttpDefault, PsDefault,
                               req, Absent, pkg, Absent, Absent, {})
                       EXCEPT !.fs[entry.name] = entry.code,
                              !.installExit = 1]
    \/ \E req \in AppRequirementsOptions, pkg \in AppPackageJsonOptions,
          web \in AppHttpOptions, pom \in AppPomOptions :
           target = [Container(PortsDefault, EnvDefault, web, PsDefault,
                               req, Absent, pkg, pom, Absent, {})
                       EXCEPT !.fs["app.py"] =
                                 << "from flask import Flask", "app = Flask(__name__)" >>]
    \/ \E req \in AppRequirementsOptions, pkg \in AppPackageJsonOptions,
          entry \in EntryOptions, bootstrap \in BootstrapOptions :
           target = [Container(PortsDefault, EnvDefault, HttpDefault, PsDefault,
                               req, Absent, pkg, Absent, Absent, {})
                       EXCEPT !.fs[entry.name] = entry.code,
                              !.fs["otel_init.py"] = bootstrap.py,
                              !.fs["otel.js"] = bootstrap.js,
                              !.readonly = TRUE]
    \/ \E req \in AppRequirementsOptions, pkg \in AppPackageJsonOptions,
          entry \in EntryOptions, raises \in SmallSubsets(UndoRaisesDomain, MaxRaises) :
           target = [Container(PortsDefault, EnvDefault, HttpDefault, PsDefault,
                               req, Absent, pkg, Absent, Absent, raises)
                       EXCEPT !.fs[entry.name] = entry.code]
    \/ \E req \in TelemetryRequirementsOptions, entry \in EntryOptions :
           target = [Container(PortsDefault, EnvDefault, HttpDefault, PsDefault,
                               req, Absent, Absent, Absent, Absent, {})
                       EXCEPT !.fs[entry.name] = entry.code]

Init ==
    /\ \/ InitApp
       \/ target = [EmptyContainer EXCEPT !.exists = FALSE]
    /\ Fresh
    /\ NoBatch

(***************************************************************************)
(* Operations                                                              *)
(***************************************************************************)
Detect_Touching ==
    /\ op' = "detect"
    /\ detection' = detect(target)
    /\ target' = [target EXCEPT !.fs["requirements.txt"] = Absent]
    /\ UNCHANGED << instrumentation, calls, executed, answer, log >>
    /\ UNCHANGED batch

\* FrameworkDetector.detect(container_id): the scanners only run "ps aux",
\* "test -f" and "cat" in the container and send GET requests to it
Detect ==
    /\ op' = "detect"
    /\ detection' = detect(target)
    /\ UNCHANGED << target, instrumentation, calls, executed, answer, log >>
    /\ UNCHANGED batch

\* InstrumentationOrchestrator.instrument_container(container_id); detection
\* keeps what the detector returned to the orchestrator
Instrument ==
    /\ calls < MaxCalls
    /\ op' = "instrument"
    /\ detection' = detect(target)
    /\ \E r \in {instrument_container(target)} :
          /\ target' = r.c
          /\ instrumentation' = r.result
          /\ executed' = r.steps
          /\ log' = Append(log, [op |-> "instrument",
                                 ok |-> r.result.status = "INSTRUMENTED"])
    /\ calls' = calls + 1
    /\ UNCHANGED answer
    /\ UNCHANGED batch

\* InstrumentationOrchestrator.verify_instrumentation(container_id)
Verify ==
    /\ op' = "verify"
    /\ detection' = detect(target)
    /\ answer' = verify_instrumentation(target)
    /\ UNCHANGED << target, instrumentation, calls, executed, log >>
    /\ UNCHANGED batch

\* InstrumentationOrchestrator.rollback_instrumentation(container_id)
Rollback ==
    /\ calls < MaxCalls
    /\ op' = "rollback"
    /\ detection' = detect(target)
    /\ \E r \in {rollback_instrumentation(target)} :
          /\ target' = r.c
          /\ answer' = r.value
          /\ log' = Append(log, [op |-> "rollback", ok |-> r.value])
    /\ calls' = calls + 1
    /\ UNCHANGED << instrumentation, executed >>
    /\ UNCHANGED batch

NextDetect == Detect

SpecDetect == InitDetect /\ [][NextDetect]_vars

Next == Detect \/ Instrument \/ Verify \/ Rollback

Spec == Init /\ [][Next]_vars

\* the containers a batch command meets: a Flask application, a Flask
\* application whose write of otel_init.py raises, a Flask application whose
\* installer fails, an Express application, a container that was removed
\* after it was listed, and a container with no evidence
FleetOptions ==
    LET flask == [Container(PortsDefault, EnvDefault, HttpDefault, PsDefault,
                            << "Flask==2.3.0" >>, Absent, Absent, Absent, Absent, {})
                    EXCEPT !.fs["app.py"] =
                              << "from flask import Flask", "app = Flask(__name__)" >>]
        express == [Container(PortsDefault, EnvDefault, HttpDefault, PsDefault, Absent, Absent,
                              << "name: express-demo", "express: ^4.18.2" >>,
                              Absent, Absent, {})
                      EXCEPT !.fs["app.js"] = << "const express = require('express')" >>]
    IN  {flask,
         [flask EXCEPT !.raises = {Cmd("write", "otel_init.py")}],
         [flask EXCEPT !.installExit = 1],
         express,
         [EmptyContainer EXCEPT !.exists = FALSE],
         EmptyContainer}

\* docker_client.containers.list(): at most MaxFleet containers
Fleets == UNION {[1..n -> FleetOptions] : n \in 0..MaxFleet}

InitBatch ==
    /\ target = [EmptyContainer EXCEPT !.exists = FALSE]
    /\ Fresh
    /\ command \in {"detect_all", "instrument_all"}
    /\ containers \in Fleets
    /\ fleet = containers
    /\ cursor = 1
    /\ results = << >>
    /\ errors = << >>

\* one pass of the for loop of detect_all_command
DetectAll ==
    /\ command = "detect_all"
    /\ cursor <= Len(fleet)
    /\ \E r \in {detect_all_iteration(fleet[cursor], cursor, results, errors)} :
          /\ results' = r.results
          /\ errors' = r.errors
    /\ cursor' = cursor + 1
    /\ UNCHANGED << command, containers, fleet >>
    /\ UNCHANGED single

\* one pass of the for loop of instrument_all_command
InstrumentAll ==
    /\ command = "instrument_all"
    /\ cursor <= Len(fleet)
    /\ \E r \in {instrument_all_iteration(fleet[cursor], cursor, results, errors)} :
          /\ fleet' = [fleet EXCEPT ![cursor] = r.c]
          /\ results' = r.results
          /\ errors' = r.errors
    /\ cursor' = cursor + 1
    /\ UNCHANGED << command, containers >>
    /\ UNCHANGED single

NextBatch == DetectAll \/ InstrumentAll

SpecBatch == InitBatch /\ [][NextBatch]_vars

(***************************************************************************)
(* Properties of detection                                                 *)
(***************************************************************************)
\* the last call was detect and it returned a DetectionResult
DetectReturned == op = "detect" /\ detection.raised = None

\* framework f has a score in at least one of the six evidence maps
HasEvidence(h, f) == \E src \in Sources : DictHas(h[src], f, FALSE)

\* sum over the six categories of hint score x category weight
WeightedScore(h, f) ==
      DictGet(h.package_hints, f) * weights.package
    + DictGet(h.process_hints, f) * weights.process
    + DictGet(h.file_hints, f) * weights.file
    + DictGet(h.http_hints, f) * weights.http
    + DictGet(h.env_hints, f) * weights.env
    + DictGet(h.port_hints, f) * weights.port

\* C1: when all six scanners return empty evidence, detect returns
\* framework Unknown, language Unknown, confidence 0.0 and no version.
C1_NoEvidenceIsUnknown ==
    (DetectReturned /\ detection.metadata = NoHints)
        => /\ detection.framework = "UNKNOWN"
           /\ detection.language = "UNKNOWN"
           /\ detection.confidence = 0
           /\ detection.version = None

\* a container with ports, variables and a process, none of which is evidence
C1_Witness ==
    /\ DetectReturned
    /\ detection.metadata = NoHints
    /\ target.env # << >>
    /\ detection.framework = "UNKNOWN"

\* C2: the framework detect returns has a summed weighted score that is at
\* least the summed weighted score of every framework with evidence.
C2_WinnerHasMaxScore ==
    DetectReturned
        => \A f \in Framework :
              HasEvidence(detection.metadata, f)
                 => WeightedScore(detection.metadata, detection.framework)
                       >= WeightedScore(detection.metadata, f)

\* two frameworks with evidence and different sums
C2_Witness ==
    /\ DetectReturned
    /\ \E f \in Framework :
          /\ HasEvidence(detection.metadata, f)
          /\ WeightedScore(detection.metadata, f) > 0
          /\ WeightedScore(detection.metadata, f)
                < WeightedScore(detection.metadata, detection.framework)

\* C3: the confidence detect returns lies between 0.0 and 1.0, also when
\* category scores exceed 1.0 and several categories agree on one framework.
C3_ConfidenceInRange ==
    DetectReturned => detection.confidence >= 0 /\ detection.confidence <= 1000

\* the winner's sum is above 1.0 and a category score is above 1.0
C3_Witness ==
    /\ DetectReturned
    /\ WeightedScore(detection.metadata, detection.framework) > 1000
    /\ DictGet(detection.metadata.package_hints, detection.framework) > 10
    /\ detection.confidence = 1000

\* C4: detect returns Unknown if and only if no scanner contributed a score
\* under any framework key.
C4_UnknownIffNoScore ==
    DetectReturned
        => (detection.framework = "UNKNOWN"
               <=> \A f \in Framework : ~HasEvidence(detection.metadata, f))

\* the version string the package scanner stored for framework f, None when
\* it stored none
ExtractedVersion(h, f) == VersionGet(h.package_hints, VersionKey(f))

\* C5: the version detect returns is the version string the package scanner
\* extracted for the winning framework, and never one extracted for another
\* framework.
C5_WinnerVersionReported ==
    DetectReturned
        => detection.version = ExtractedVersion(detection.metadata, detection.framework)

\* Scenario A: the FLASK_APP variable, a requirements manifest listing
\* Flask==2.3.0, a 'python ... app.py' process and port 5000 exposed
ScenarioA(c) ==
    /\ c.exists
    /\ ~c.envNull /\ "FLASK_APP=app.py" \in Range(c.env)
    /\ c.fs["requirements.txt"] # Absent
    /\ "Flask==2.3.0" \in Range(c.fs["requirements.txt"])
    /\ c.psExit = 0 /\ "python app.py" \in c.ps /\ ~Raises(c, Cmd("ps aux", ""))
    /\ ~c.portsNull /\ "5000/tcp" \in Range(c.ports)

\* Scenario A and nothing else that a scanner reads, whatever the HTTP server
\* of the container answers
ScenarioAOnly(c) ==
    /\ ScenarioA(c)
    /\ Range(c.env) \subseteq {"FLASK_APP=app.py", "PATH=/usr/local/bin:/usr/bin"}
    /\ c.fs["requirements.txt"] = << "Flask==2.3.0" >>
    /\ \A name \in {"Pipfile", "package.json", "pom.xml", "build.gradle"} :
          c.fs[name] = Absent
    /\ c.ps = {"python app.py"}
    /\ c.ports = << "5000/tcp" >>
    /\ c.raises = {}

ExpressPortOnly(h) ==
    /\ DictHas(h.port_hints, "EXPRESS", FALSE)
    /\ \A src \in Sources \ {"port_hints"} : ~DictHas(h[src], "EXPRESS", FALSE)
    /\ DictHas(h.package_hints, "FLASK", FALSE)

\* C7 as stated: with port-only evidence for Express and a manifest match
\* for Flask, detect returns Flask.
C7_FlaskBeatsPortOnlyExpress ==
    (DetectReturned /\ ExpressPortOnly(detection.metadata))
        => detection.framework = "FLASK"

\* C7 amended: with port-only evidence for Express and a manifest match for
\* Flask, the summed score of Flask is above that of Express and detect does
\* not return Express; it returns Flask when no third framework has evidence.
C7_FlaskBeatsExpress ==
    (DetectReturned /\ ExpressPortOnly(detection.metadata))
        => /\ WeightedScore(detection.metadata, "FLASK")
                 > WeightedScore(detection.metadata, "EXPRESS")
           /\ detection.framework # "EXPRESS"
           /\ (\A f \in Framework \ {"FLASK", "EXPRESS"} :
                  ~HasEvidence(detection.metadata, f))
                 => detection.framework = "FLASK"

\* two Express ports against a requirements manifest that lists Flask
C7_Witness ==
    /\ DetectReturned
    /\ ExpressPortOnly(detection.metadata)
    /\ DictGet(detection.metadata.port_hints, "EXPRESS") = 6
    /\ \A src \in Sources \ {"package_hints", "file_hints"} :
          ~DictHas(detection.metadata[src], "FLASK", FALSE)
    /\ detection.framework = "FLASK"

\* the containers that differ from c in the order of the declared variables
\* or of the port bindings
Reordered(c) ==
    {[c EXCEPT !.env = e, !.ports = p] :
        e \in {c.env, Reverse(c.env)}, p \in {c.ports, Reverse(c.ports)}}

\* C8: two runs of the evidence combination on equal evidence maps return the
\* same framework and confidence, also when frameworks tie for the top score.
C8_EqualEvidenceSameResult ==
    DetectReturned
        => \A c2 \in Reordered(target) :
              LET h2 == Hints(Scan(c2))
              IN  (\A src \in Sources : DictEq(h2[src], detection.metadata[src]))
                     => /\ Combine(h2).framework = detection.framework
                        /\ Combine(h2).confidence = detection.confidence

\* the files the file analyzer and the package analyzer read
ScannedFiles(src) ==
    IF src = "file_hints" THEN {"requirements.txt", "package.json", "pom.xml"}
    ELSE IF src = "package_hints"
         THEN {"requirements.txt", "Pipfile", "package.json", "pom.xml", "build.gradle"}
         ELSE {}

\* scanner src hits an internal error while it scans c
ScannerFails(c, src) ==
    CASE src = "port_hints"    -> c.portsNull
      [] src = "env_hints"     -> c.envNull
      [] src = "process_hints" -> Raises(c, Cmd("ps aux", ""))
      [] src = "http_hints"    -> FALSE
      [] src = "file_hints"    ->
            \E name \in ScannedFiles(src) :
                \/ Raises(c, Cmd("test -f", name))
                \/ FileExit(c, name) = 0 /\ Raises(c, Cmd("cat", name))
      [] src = "package_hints" ->
            \E name \in ScannedFiles(src) : Raises(c, Cmd("cat", name))

Healthy(c) == [c EXCEPT !.raises = {}, !.portsNull = FALSE, !.envNull = FALSE]

\* every entry of d1 is in d2, a score possibly higher there
Within2(d1, d2) ==
    \A i \in 1..Len(d1) :
        IF d1[i].isver THEN DictHas(d2, d1[i].key, TRUE)
        ELSE DictHas(d2, d1[i].key, FALSE) /\ d1[i].score <= DictGet(d2, d1[i].key)

C10_UnknownIsRefused ==
    [][(/\ op' = "instrument"
        /\ detection'.raised = None
        /\ detection'.framework = "UNKNOWN")
       => (/\ instrumentation'.status = "FAILED"
           /\ instrumentation'.error_message \notin {None, ""}
           /\ instrumentation'.modifications = << >>
           /\ target'.fs = target.fs)]_vars

\* an instrument call on a container that has an app.py, which the Flask
\* and FastAPI instrumentors would rewrite, and whose framework is Unknown
C10_Witness ==
    /\ op = "instrument"
    /\ detection.raised = None
    /\ detection.framework = "UNKNOWN"
    /\ instrumentation.status = "FAILED"
    /\ target.fs["app.py"] # Absent

\* an instrumentor ran at least one step in the last instrument call
RanSteps == op = "instrument" /\ executed # << >>

\* the first step of the last instrument call that failed, 0 when none did
FirstFailed ==
    IF \E k \in 1..Len(executed) : executed[k]
    THEN CHOOSE k \in 1..Len(executed) : executed[k] /\ \A j \in 1..(k - 1) : ~executed[j]
    ELSE 0

\* the modification labels of steps 1..n of the framework, in order
Labels(framework, n) == [i \in 1..n |-> StepLabel(i, framework)]

\* C11: when step k of an instrument call fails, no later step is executed
\* and modifications holds exactly the entries of steps 1..k-1, in order.
C11_FailedStepStopsRun ==
    (RanSteps /\ FirstFailed # 0)
       => /\ Len(executed) = FirstFailed
          /\ instrumentation.modifications
                = Labels(instrumentation.framework, FirstFailed - 1)

\* every one of the four steps ran and none failed
AllStepsSucceeded == Len(executed) = 4 /\ \A k \in 1..4 : ~executed[k]

\* C12: an instrumentor returns status Instrumented exactly when every step
\* succeeded on the target and Failed when any step failed, and never any
\* other status.
C12_StatusTellsOutcome ==
    RanSteps
       => /\ instrumentation.status \in {"INSTRUMENTED", "FAILED"}
          /\ instrumentation.status = "INSTRUMENTED" <=> AllStepsSucceeded
          /\ FirstFailed # 0 => instrumentation.status = "FAILED"

\* the entry files the instrumentor of the framework tries, in its order
EntryCandidates(framework) ==
    CASE framework = "flask"   -> << "app.py" >>
      [] framework = "django"  -> << "manage.py" >>
      [] framework = "fastapi" -> << "main.py", "app.py" >>
      [] framework = "express" -> << "app.js", "server.js", "index.js" >>

\* the entry file the patch step of the framework works on: the first
\* candidate that can be read, "" when there is none
EntryFile(c, framework) ==
    LET cand == EntryCandidates(framework)
        readable == {i \in 1..Len(cand) : FileExit(c, cand[i]) = 0}
    IN  IF readable = {} THEN ""
        ELSE cand[CHOOSE i \in readable : \A j \in readable : i <= j]

\* the marker the patch step looks for
Marker(framework) == IF framework = "express" THEN "otel.js" ELSE "otel_init"

\* the lines that import the bootstrap file and the lines that invoke it
BootstrapImports ==
    {"import otel_init  # ObsStack instrumentation", "import otel_init  # ObsStack",
     "    import otel_init  # ObsStack", "require('./otel.js');"}

BootstrapInvocations ==
    {"app = otel_init.instrument_flask_app(app)",
     "app = otel_init.instrument_fastapi_app(app)"}

\* how many lines of the content are in the set
CountIn(content, lines) == Cardinality({i \in 1..Len(content) : content[i] \in lines})

\* the instrumentor the last detection selects, None when there is none
Selected(d) == IF d.raised # None THEN None ELSE instrumentors(d.framework)

\* C13: an instrument call that finds the marker in the entry file leaves the
\* entry file as it is, its patch step succeeds, and the call returns
\* Instrumented when the call before it did; the entry file never holds more
\* than one bootstrap import and one bootstrap invocation.
C13_PatchOnce ==
    [][(op' = "instrument" /\ Selected(detection') # None)
       => LET framework == Selected(detection')
              entry == EntryFile(target, framework)
          IN  /\ \A f \in {"app.py", "main.py", "manage.py", "app.js", "server.js"} :
                    /\ CountIn(target'.fs[f], BootstrapImports) <= 1
                    /\ CountIn(target'.fs[f], BootstrapInvocations) <= 1
              /\ (entry # "" /\ Contains(target.fs[entry], Marker(framework)))
                    => /\ target'.fs[entry] = target.fs[entry]
                       /\ Len(executed') >= 3 => ~executed'[3]
                       /\ (op = "instrument" /\ instrumentation.status = "INSTRUMENTED")
                             => instrumentation'.status = "INSTRUMENTED"]_vars

\* a second instrument call on an entry file that the first one patched:
\* both returned Instrumented and the file holds one import
C13_Witness ==
    /\ op = "instrument"
    /\ Len(log) = 2
    /\ log[1] = [op |-> "instrument", ok |-> TRUE]
    /\ instrumentation.status = "INSTRUMENTED"
    /\ instrumentation.framework = "flask"
    /\ CountIn(target.fs["app.py"], BootstrapImports) = 1
    /\ CountIn(target.fs["app.py"], BootstrapInvocations) = 1

\* the telemetry dependencies the manifest step of the framework adds
RequiredDependencies(framework) ==
    IF framework = "express" THEN generate_package_json_additions(framework)
    ELSE generate_requirements_additions(framework)

\* C14: after any number of instrument calls, each telemetry dependency the
\* manifest step adds appears at most once in the manifest.
C14_NoDuplicateDependency ==
    (op = "instrument" /\ Selected(detection) # None /\ executed # << >>)
       => LET framework == Selected(detection)
              manifest == target.fs[Manifest(framework)]
              required == RequiredDependencies(framework)
          IN  \A i \in 1..Len(required) : CountIn(manifest, {required[i]}) <= 1

\* the frameworks that have an instrumentor
Supported == {"flask", "django", "fastapi", "express"}

\* the last two calls that may change the container were an instrument call
\* that reached an instrumentor and then a rollback call
InstrumentThenRollback ==
    /\ Len(log) >= 2
    /\ log[Len(log) - 1].op = "instrument"
    /\ log[Len(log)].op = "rollback"
    /\ instrumentation.framework \in Supported

\* C15: after instrument followed by rollback on a target of a supported
\* framework, rollback returned true and a following verify_instrumentation
\* returns false.
C15_RollbackUndoes ==
    InstrumentThenRollback
       => /\ log[Len(log)].ok
          /\ op = "verify" => ~answer

\* the last call that may change the container was an instrument call that
\* returned Instrumented
LastInstrumented ==
    /\ log # << >>
    /\ log[Len(log)] = [op |-> "instrument", ok |-> TRUE]

\* C16: after instrument returned Instrumented and with no rollback since,
\* verify_instrumentation returns true.
C16_InstrumentedVerifies == (op = "verify" /\ LastInstrumented) => answer

\* the dependency whose presence shows that the telemetry packages of the
\* framework were installed
TelemetryDependency(framework) ==
    IF framework = "express" THEN "@opentelemetry/sdk-trace-node" ELSE TelemetryPackage

\* C17: verify_instrumentation returns true exactly when the bootstrap file
\* exists and the telemetry dependency is installed.
C17_VerifyIffFileAndDependency ==
    (op = "verify" /\ Selected(detection) # None)
       => LET framework == Selected(detection)
          IN  answer <=> /\ FileExit(target, OtelFile(framework)) = 0
                         /\ TelemetryDependency(framework) \in target.installed

\* C18: a rollback changes no file but the bootstrap file: the manifest and
\* every other file hold after the rollback what they held before it.
C18_RollbackTouchesBootstrapOnly ==
    [][(op' = "rollback" /\ Selected(detection') # None)
       => \A f \in FileNames \ {OtelFile(Selected(detection'))} :
             target'.fs[f] = target.fs[f]]_vars

(***************************************************************************)
(* Properties of the batch commands                                        *)
(***************************************************************************)
\* the loop of the batch command has gone through every container
BatchDone(cmd) == command = cmd /\ cursor = Len(containers) + 1

\* a step of the instrumentor raises when container c is instrumented alone
Throws(c) == instrument_container(c).result.error_message = APIError

\* C19: a batch instrument over N containers ends with exactly N result
\* entries, one per container and in their order; each entry is what
\* instrumenting that container alone gives, the entry of a container whose
\* instrumentation throws is Failed with a message, and nothing is left to
\* the except branch of the loop.
C19_BatchInstrumentIsolates ==
    BatchDone("instrument_all")
       => /\ Len(results) = Len(containers)
          /\ errors = << >>
          /\ \A i \in 1..Len(containers) :
                /\ results[i].target = i
                /\ results[i].result = instrument_container(containers[i]).result
                /\ fleet[i] = instrument_container(containers[i]).c
                /\ results[i].result.status \in {"INSTRUMENTED", "FAILED"}
                /\ Throws(containers[i])
                      => /\ results[i].result.status = "FAILED"
                         /\ results[i].result.error_message \notin {None, ""}

\* a finished batch instrument over three containers, the second of which
\* throws in the middle of its steps while the first and the third are
\* instrumented
C19_Witness ==
    /\ BatchDone("instrument_all")
    /\ Len(containers) = 3
    /\ Throws(containers[2])
    /\ results[2].result.modifications # << >>
    /\ results[1].result.status = "INSTRUMENTED"
    /\ results[3].result.status = "INSTRUMENTED"

\* C20: a batch detect over N containers ends with one result entry per
\* container; a container whose detection raises has the exception recorded
\* in its own entry, and the entries of the others are what detect returns
\* for them.
C20_BatchDetectIsolates ==
    BatchDone("detect_all")
       => /\ Len(results) = Len(containers)
          /\ \A i \in 1..Len(containers) :
                /\ results[i].target = i
                /\ results[i].result = detect(containers[i])

(***************************************************************************)
(* Further properties of the orchestrator and of the scanners              *)
(***************************************************************************)
\* the container that does not exist, as it is before any call
Missing == [EmptyContainer EXCEPT !.exists = FALSE]

\* C21: on a target that does not exist detect raises the not-found error
\* (ValueError, not the RuntimeError of a failed detection), instrument
\* returns Failed with the not-found message and no modifications, and the
\* target is left as it was; a target that exists gets neither.
C21_NotFoundIsDistinct ==
    /\ ~target.exists
          => /\ target = Missing
             /\ op = "detect" => detection.raised = "ValueError"
             /\ op = "instrument"
                   => /\ instrumentation.status = "FAILED"
                      /\ instrumentation.error_message = "Container not found"
                      /\ instrumentation.modifications = << >>
                      /\ executed = << >>
    /\ target.exists
          => /\ detection.raised # "ValueError"
             /\ instrumentation.error_message # "Container not found"

\* an instrument call on the container that does not exist
C21_Witness ==
    /\ ~target.exists
    /\ op = "instrument"
    /\ instrumentation.status = "FAILED"

\* the modifications list holds the entry of step k of the framework
Logged(result, k) ==
    \E i \in 1..Len(result.modifications) :
       result.modifications[i] = StepLabel(k, result.framework)

\* C22: an entry of the modifications list names a step that was applied in
\* that call: the manifest entry is there only if the manifest was changed,
\* the bootstrap entry only if the bootstrap file holds the generated code,
\* the entry-file entry only if an entry file was changed.
C22_LoggedStepsWereApplied ==
    [][(op' = "instrument" /\ instrumentation'.framework \in Supported)
       => LET result == instrumentation'
              framework == result.framework
          IN  /\ Logged(result, 1)
                    => target'.fs[Manifest(framework)] # target.fs[Manifest(framework)]
              /\ Logged(result, 2)
                    => target'.fs[OtelFile(framework)] = generate_otel_code(framework)
              /\ Logged(result, 3)
                    => \E i \in 1..Len(EntryCandidates(framework)) :
                          target'.fs[EntryCandidates(framework)[i]]
                             # target.fs[EntryCandidates(framework)[i]]]_vars

MatchedPatterns(c, wild) ==
    {i \in 1..Len(PROCESS_PATTERNS) :
        /\ PROCESS_PATTERNS[i].wild = wild
        /\ \E line \in c.ps : PROCESS_PATTERNS[i].pat \in LineMatches(line)}

\* 'ps aux' ran and exited with 0
Listed(c) == c.exists /\ c.psExit = 0 /\ ~Raises(c, Cmd("ps aux", ""))

\* C25: a process scan gives evidence for at most one framework, with score
\* 0.8 whenever any specific pattern matches the listing, and with score 0.6
\* only when no specific pattern matches and a generic one does.
C25_SpecificPatternFirst ==
    (op = "detect" /\ Listed(target))
        => LET hints == detection.metadata.process_hints
           IN  /\ Len(hints) <= 1
               /\ MatchedPatterns(target, TRUE) # {}
                     => Len(hints) = 1 /\ hints[1].score = 8
               /\ (Len(hints) = 1 /\ hints[1].score = 6)
                     => /\ MatchedPatterns(target, TRUE) = {}
                        /\ MatchedPatterns(target, FALSE) # {}

\* the prober reached the server of c on exactly one port
OneProbeRound(c) ==
    c.exists /\ c.ip /\ c.http.up /\ Len(get_exposed_ports(c)) = 1

\* C26: the score a framework receives from the HTTP scanner in one probe
\* round (one port) is one fixed weight between 0.4 and 0.6; it does not grow
\* with the number of header patterns or endpoints that matched the framework.
C26_HttpScoreIgnoresMatchCount ==
    (DetectReturned /\ OneProbeRound(target))
        => LET hints == detection.metadata.http_hints
           IN  \A i \in 1..Len(hints) : hints[i].score >= 4 /\ hints[i].score <= 6

Ecosystems == {"python", "nodejs", "java"}

\* the manifests _analyze_python, _analyze_nodejs and _analyze_java read
EcosystemFiles(e) ==
    CASE e = "python" -> {"requirements.txt", "Pipfile"}
      [] e = "nodejs" -> {"package.json"}
      [] e = "java"   -> {"pom.xml", "build.gradle"}

\* the frameworks of PYTHON_PACKAGES, NODEJS_PACKAGES and JAVA_PACKAGES
EcosystemFrameworks(e) ==
    CASE e = "python" -> {"FLASK", "DJANGO", "FASTAPI"}
      [] e = "nodejs" -> {"EXPRESS", "NESTJS"}
      [] e = "java"   -> {"SPRING_BOOT"}

\* the entries of the evidence map d under the keys of ecosystem e
OfEcosystem(d, e) ==
    {d[i] : i \in {j \in 1..Len(d) :
                      \E f \in EcosystemFrameworks(e) :
                          d[j].key = (IF d[j].isver THEN VersionKey(f) ELSE f)}}

\* a manifest of e whose 'cat' raises
ReadFails(c, e) == \E name \in EcosystemFiles(e) : Raises(c, Cmd("cat", name))

\* package.json is read and json.loads raises on it
ParseFails(c, e) ==
    e = "nodejs" /\ Cat(c, "package.json") # << >> /\ JsonInvalid(c.fs["package.json"])

Parses(line) == line # "<<<<<<< HEAD"

\* c with the failure of ecosystem e taken away
Repaired(c, e) ==
    [c EXCEPT !.raises = @ \ {Cmd("cat", name) : name \in EcosystemFiles(e)},
              !.fs["package.json"] = IF e = "nodejs" THEN SelectSeq(@, Parses) ELSE @]

\* c with the manifests of e that cannot be read taken away
Unreadable(c, e) ==
    [c EXCEPT !.fs = [name \in DOMAIN @ |->
                         IF name \in EcosystemFiles(e) /\ Raises(c, Cmd("cat", name))
                         THEN Absent ELSE @[name]]]

\* the evidence of the other ecosystems is what it is without the failure of e
OthersUntouched(c, hints, e) ==
    \A e2 \in Ecosystems \ {e} :
        OfEcosystem(hints, e2) = OfEcosystem(PackageAnalyzer_analyze(Repaired(c, e)).hints, e2)

BootstrapOf(name) ==
    IF name \in {"app.js", "server.js", "index.js"} THEN "otel.js" ELSE "otel_init.py"

EntryNames == {"app.py", "manage.py", "main.py", "app.js", "server.js", "index.js"}

\* C28: after any sequence of instrument and rollback calls, an entry file
\* that holds the bootstrap import or require goes with a bootstrap file that
\* exists; the entry file never refers to a bootstrap file that was deleted.
C28_ImportedBootstrapExists ==
    target.exists
        => \A name \in EntryNames :
              CountIn(target.fs[name], BootstrapImports) > 0
                 => FileExit(target, BootstrapOf(name)) = 0

\* the only call that may have changed the container was an instrument call
\* that reached an instrumentor and returned Failed, on a container that held
\* no bootstrap file and no telemetry package before it (the containers that
\* start with a bootstrap file are those of the read-only file system)
FailedOnFresh ==
    /\ Len(log) = 1
    /\ log[1] = [op |-> "instrument", ok |-> FALSE]
    /\ instrumentation.framework \in Supported
    /\ ~target.readonly

\* C29: after instrument returned Failed on a target that was not
\* instrumented before, verify_instrumentation returns false, whichever the
\* framework and the step that failed.
C29_FailedDoesNotVerify ==
    (op = "verify" /\ FailedOnFresh) => ~answer

\* C30: the framework detect returns for a target is the same before and
\* after an instrument call and before and after a rollback call, so that
\* verify and rollback dispatch to the instrumentor that instrumented.
C30_DetectionIsStable ==
    [][(op' \in {"instrument", "rollback"} /\ target.exists)
          => detect(target').framework = detect(target).framework]_vars

====
